---------------------------- MODULE Spec2Model ----------------------------
(***************************************************************************)
(* A model of docsray-mcp: the Generic Result Cache (DocumentCache), the   *)
(* provider registry and the providers' can_process, the tool handlers     *)
(* (peek, map, seek, xray, extract) and the Persistent Extraction Cache    *)
(* (LlamaParseCache) behind LlamaParseProvider._parse_document.            *)
(***************************************************************************)
EXTENDS Integers, Sequences, FiniteSets, TLC

(***************************************************************************)
(* Bounds of the model.                                                    *)
(***************************************************************************)
\* DocumentCache.max_size (100 by default), kept small.
MaxSize == 2
\* DocumentCache.ttl in clock ticks (3600 s by default), kept small.
Ttl == 1
\* The clock stops here.
MaxTime == 2
\* Number of cache calls the concurrent callers start in all.
MaxOps == 4

\* Cache keys and cached values are tuples; the empty tuple stands for
\* Python's None.
Keys == {<<"A">>, <<"B">>, <<"C">>}
Values == {<<"v1">>, <<"v2">>}
Tasks == {"t1", "t2"}

None == "None"
Absent == <<>>
NoTask == "NoTask"
NoArg == [op |-> None, key |-> Absent, value |-> Absent]
\* dict.get's answer for a key that is not there
NoEntry == [key |-> Absent, value |-> Absent, timestamp |-> 0, access_count |-> 0]

VARIABLES
    \* DocumentCache
    enabled,      \* DocumentCache.enabled
    cache,        \* DocumentCache._cache: the entries in dict (insertion) order
    lock,         \* DocumentCache._lock: the task that holds it, or NoTask
    now,          \* time.time()
    \* concurrent callers of DocumentCache.get / set / clear
    tpc,          \* where each caller is in its call
    targ,         \* the call's arguments: [op, key, value]
    tentry,       \* get's local variable entry
    tret,         \* the value the last get of the caller returned
    tsnap,        \* the entries when the caller took the lock
    tchk,         \* the clock when get judged the expiry
    nops,         \* calls started so far
    \* ProviderRegistry and the provider objects
    providers,    \* ProviderRegistry._providers: the names in dict order
    dflt,         \* ProviderRegistry._default_provider
    pinit,        \* each provider's _initialized
    pcfg,         \* each provider's attached configuration: "good" or "bad"
    sel,          \* the last select_provider call: its arguments and outcome
    \* the tool handlers (handle_peek, handle_map, handle_seek, handle_xray,
    \* handle_extract)
    h,            \* each running invocation: its position and its locals
    ncalls,       \* invocations started so far
    \* LlamaParseProvider._parse_document and its LlamaParseCache
    dbytes,       \* the document's current bytes
    dirs,         \* the cache directories under cache_root
    parser,       \* self.parser.parsing_instruction
    lp,           \* each running _parse_document call
    nparse,       \* _parse_document calls started so far
    lstore,       \* per directory, the last store_extraction into it
    storedFor,    \* the instructions a result was stored under since the
                  \* bytes last changed and the cache was last cleared
    \* the error boundary of the seven tool handlers
    bnd,          \* the running invocation: its handler, its position, the
                  \* exceptions raised so far and what the caller gets
    \* handle_fetch
    ft,           \* the running fetch: its position and its locals
    nfetch,       \* fetches started so far
    \* DocsrayServer
    down,         \* shutdown() has completed
    \* calls of the pure functions, each with its arguments and its result
    scr,          \* ProviderRegistry._score_provider
    gk,           \* DocumentCache.generate_key, called twice
    ck,           \* RAGEngine.create_chunks
    ex,           \* handle_extract from the selection of the provider on
    \* one tool invocation, step by step
    ph,           \* its position, its locals and the steps it has taken
    \* handle_search
    spath,        \* what the file system holds at the search path
    sr,           \* the running search: its position and its locals
    nsearch,      \* searches started so far
    \* the providers' life cycle
    disposed,     \* the providers disposed and not explicitly initialized
                  \* since
    \* ProviderRegistry.set_default_provider
    setd          \* the last call: its argument and whether it raised

cacheVars == <<enabled, cache, lock, now>>
taskVars == <<tpc, targ, tentry, tret, tsnap, tchk, nops>>
regVars == <<providers, dflt, pinit, pcfg, sel>>
toolVars == <<h, ncalls>>
llamaVars == <<dbytes, dirs, parser, lp, nparse, lstore, storedFor>>
\* what the callers of one DocumentCache leave alone
boundaryVars == <<bnd>>
fetchVars == <<ft, nfetch>>
serverVars == <<down>>
pureVars == <<scr, gk, ck, ex>>
phaseVars == <<ph>>
searchVars == <<spath, sr, nsearch>>
disposeVars == <<disposed>>
defaultVars == <<setd>>
moreVars == <<phaseVars, searchVars, disposeVars, defaultVars>>
\* what the step-by-step invocations, the searches, the life cycle calls
\* and the set_default_provider calls leave alone among these
besidePhases == <<searchVars, disposeVars, defaultVars>>
besideSearch == <<phaseVars, disposeVars, defaultVars>>
besideDispose == <<phaseVars, searchVars, defaultVars>>
besideDefault == <<phaseVars, searchVars, disposeVars>>
restVars == <<boundaryVars, fetchVars, serverVars, pureVars, moreVars>>
\* what the callers of one DocumentCache leave alone
outsideCache == <<regVars, toolVars, llamaVars, restVars>>
vars == <<cacheVars, taskVars, regVars, toolVars, llamaVars, restVars>>

(***************************************************************************)
(* CacheEntry and the dict of entries.                                     *)
(***************************************************************************)
\* CacheEntry.__init__: timestamp = time.time(), access_count = 0
CacheEntry(k, v, t) == [key |-> k, value |-> v, timestamp |-> t, access_count |-> 0]

\* CacheEntry.is_expired: time.time() - self.timestamp > ttl
is_expired(e, t) == t - e.timestamp > Ttl

access_touch(e, t) == [e EXCEPT !.access_count = @ + 1, !.timestamp = t]
\* CacheEntry.access: counts the read, leaves the timestamp alone
access(e, t) == [e EXCEPT !.access_count = @ + 1]

KeysOf(c) == {c[i].key : i \in 1..Len(c)}

\* dict.get(key): the entry, or NoEntry
Lookup(c, k) ==
    IF k \in KeysOf(c)
    THEN c[CHOOSE i \in 1..Len(c) : c[i].key = k]
    ELSE NoEntry

\* del dict[key]
Delete(c, k) == SelectSeq(c, LAMBDA e : e.key # k)

\* dict[key] = entry: an existing key keeps its place, a new one goes last
Put(c, e) ==
    IF e.key \in KeysOf(c)
    THEN [i \in 1..Len(c) |-> IF c[i].key = e.key THEN e ELSE c[i]]
    ELSE Append(c, e)

oldest_key_lru(c) ==
    c[CHOOSE i \in 1..Len(c) :
        /\ \A j \in 1..Len(c) : c[i].access_count <= c[j].access_count
        /\ \A j \in 1..(i-1) : c[j].access_count > c[i].access_count].key
\* min(self._cache.keys(), key=lambda k: self._cache[k].timestamp): the first
\* key, in dict order, of least timestamp
oldest_key(c) ==
    c[CHOOSE i \in 1..Len(c) :
        /\ \A j \in 1..Len(c) : c[i].timestamp <= c[j].timestamp
        /\ \A j \in 1..(i-1) : c[j].timestamp > c[i].timestamp].key

\* DocumentCache.get under the lock: <<returned value, entries afterwards>>
get_body(c, k, t) ==
    LET entry == Lookup(c, k) IN
    IF entry # NoEntry /\ ~is_expired(entry, t)
    THEN <<entry.value, Put(c, access(entry, t))>>
    ELSE IF entry # NoEntry
         THEN <<Absent, Delete(c, k)>>
         ELSE <<Absent, c>>

\* DocumentCache.set under the lock: the eviction
set_evict(c) == IF Len(c) >= MaxSize THEN Delete(c, oldest_key(c)) ELSE c

\* DocumentCache.set under the lock: the entries afterwards
set_body(c, k, v, t) == Put(set_evict(c), CacheEntry(k, v, t))

lock_free_always == TRUE
\* asyncio.Lock: acquired only when no task holds it
lock_free == lock = NoTask

(***************************************************************************)
(* The clock.                                                              *)
(***************************************************************************)
Tick ==
    /\ now < MaxTime
    /\ now' = now + 1
    /\ UNCHANGED <<enabled, cache, lock, taskVars, outsideCache>>

(***************************************************************************)
(* Concurrent callers of one DocumentCache.  Each call takes the lock,     *)
(* runs its body one statement at a time and releases the lock.            *)
(***************************************************************************)
GetCall(t, k) ==
    /\ tpc[t] = "idle" /\ nops < MaxOps
    /\ nops' = nops + 1
    \* if not self.enabled: return None
    /\ IF ~enabled
       THEN UNCHANGED <<tpc, targ>>
       ELSE /\ tpc' = [tpc EXCEPT ![t] = "acquire"]
            /\ targ' = [targ EXCEPT ![t] = [op |-> "get", key |-> k, value |-> Absent]]
    /\ UNCHANGED <<cacheVars, tentry, tret, tsnap, tchk>>
    /\ UNCHANGED outsideCache

SetCall(t, k, v) ==
    /\ tpc[t] = "idle" /\ nops < MaxOps
    /\ nops' = nops + 1
    \* if not self.enabled: return
    /\ IF ~enabled
       THEN UNCHANGED <<tpc, targ>>
       ELSE /\ tpc' = [tpc EXCEPT ![t] = "acquire"]
            /\ targ' = [targ EXCEPT ![t] = [op |-> "set", key |-> k, value |-> v]]
    /\ UNCHANGED <<cacheVars, tentry, tret, tsnap, tchk>>
    /\ UNCHANGED outsideCache

ClearCall(t) ==
    /\ tpc[t] = "idle" /\ nops < MaxOps
    /\ nops' = nops + 1
    /\ targ' = [targ EXCEPT ![t] = [op |-> "clear", key |-> Absent, value |-> Absent]]
    /\ tpc' = [tpc EXCEPT ![t] = "acquire"]
    /\ UNCHANGED <<cacheVars, tentry, tret, tsnap, tchk>>
    /\ UNCHANGED outsideCache

\* async with self._lock: entry
Acquire(t) ==
    /\ tpc[t] = "acquire"
    /\ lock_free
    /\ lock' = t
    /\ tsnap' = [tsnap EXCEPT ![t] = cache]
    /\ tpc' = [tpc EXCEPT ![t] = IF targ[t].op = "get" THEN "get_lookup"
                                 ELSE IF targ[t].op = "set" THEN "set_evict"
                                 ELSE "clear_body"]
    /\ UNCHANGED <<enabled, cache, now, targ, tentry, tret, tchk, nops>>
    /\ UNCHANGED outsideCache

\* entry = self._cache.get(key)
GetLookup(t) ==
    /\ tpc[t] = "get_lookup"
    /\ tentry' = [tentry EXCEPT ![t] = Lookup(cache, targ[t].key)]
    /\ tpc' = [tpc EXCEPT ![t] = "get_check"]
    /\ UNCHANGED <<cacheVars, targ, tret, tsnap, tchk, nops>>
    /\ UNCHANGED outsideCache

\* if entry and not entry.is_expired(ttl): return entry.access()
\* elif entry: del self._cache[key]
GetCheck(t) ==
    /\ tpc[t] = "get_check"
    /\ tchk' = [tchk EXCEPT ![t] = now]
    /\ LET entry == tentry[t] IN
       IF entry # NoEntry /\ ~is_expired(entry, now)
       THEN /\ tret' = [tret EXCEPT ![t] = entry.value]
            \* the entry object is counted; it shows in the dict if still there
            /\ cache' = IF Lookup(cache, entry.key) = entry
                        THEN Put(cache, access(entry, now)) ELSE cache
       ELSE /\ tret' = [tret EXCEPT ![t] = Absent]
            /\ cache' = IF entry # NoEntry THEN Delete(cache, entry.key) ELSE cache
    /\ tpc' = [tpc EXCEPT ![t] = "release"]
    /\ UNCHANGED <<enabled, lock, now, targ, tentry, tsnap, nops>>
    /\ UNCHANGED outsideCache

\* if len(self._cache) >= self.max_size: del self._cache[oldest_key]
SetEvict(t) ==
    /\ tpc[t] = "set_evict"
    /\ cache' = set_evict(cache)
    /\ tpc' = [tpc EXCEPT ![t] = "set_insert"]
    /\ UNCHANGED <<enabled, lock, now, targ, tentry, tret, tsnap, tchk, nops>>
    /\ UNCHANGED outsideCache

\* self._cache[key] = CacheEntry(key, value, metadata or {})
SetInsert(t) ==
    /\ tpc[t] = "set_insert"
    /\ cache' = Put(cache, CacheEntry(targ[t].key, targ[t].value, now))
    /\ tpc' = [tpc EXCEPT ![t] = "release"]
    /\ UNCHANGED <<enabled, lock, now, targ, tentry, tret, tsnap, tchk, nops>>
    /\ UNCHANGED outsideCache

\* self._cache.clear()
ClearBody(t) ==
    /\ tpc[t] = "clear_body"
    /\ cache' = <<>>
    /\ tpc' = [tpc EXCEPT ![t] = "release"]
    /\ UNCHANGED <<enabled, lock, now, targ, tentry, tret, tsnap, tchk, nops>>
    /\ UNCHANGED outsideCache

\* async with self._lock: exit, and the call returns
Release(t) ==
    /\ tpc[t] = "release"
    /\ lock' = IF lock = t THEN NoTask ELSE lock
    /\ tpc' = [tpc EXCEPT ![t] = "idle"]
    \* the call's frame is gone
    /\ targ' = [targ EXCEPT ![t] = NoArg]
    /\ tentry' = [tentry EXCEPT ![t] = NoEntry]
    /\ tret' = [tret EXCEPT ![t] = Absent]
    /\ tsnap' = [tsnap EXCEPT ![t] = <<>>]
    /\ tchk' = [tchk EXCEPT ![t] = 0]
    /\ UNCHANGED <<enabled, cache, now, nops>>
    /\ UNCHANGED outsideCache

(***************************************************************************)
(* The providers and the ProviderRegistry.                                 *)
(***************************************************************************)
PyMuPDF == "pymupdf4llm"
LlamaParse == "llama-parse"
Mimic == "mimic-docsray"
Docling == "ibm-docling"
ProviderNames == {PyMuPDF, LlamaParse, Mimic, Docling}
\* select_provider's outcome when an exception leaves it
Raised == "raised"

MiB == 1024 * 1024

\* get_supported_formats
Formats(name) ==
    CASE name = PyMuPDF -> {"pdf", "xps", "epub", "cbz", "svg"}
      [] name = LlamaParse ->
            {"pdf", "docx", "pptx", "xlsx", "html", "xml", "json", "csv", "tsv",
             "md", "rst", "rtf", "txt", "epub", "eml", "msg", "org", "odt",
             "ods", "odp"}
      [] name = Mimic ->
            {"pdf", "docx", "doc", "pptx", "ppt", "xlsx", "xls", "txt", "md",
             "html", "xml", "json", "csv", "tsv", "rtf", "odt", "ods", "odp",
             "epub", "mobi", "png", "jpg", "jpeg", "tiff", "bmp", "gif", "webp"}
      [] name = Docling ->
            {"pdf", "docx", "pptx", "xlsx", "html", "xml", "md", "csv",
             "asciidoc", "json", "audio", "vtt", "image", "png", "jpg", "jpeg",
             "tiff", "bmp", "gif", "webp", "svg"}

\* get_capabilities: the features the registry and the handlers read, and
\* the performance figures
Capabilities(name) ==
    CASE name = PyMuPDF ->
            [ocr |-> FALSE, tables |-> TRUE, images |-> TRUE, forms |-> TRUE,
             streaming |-> TRUE, customInstructions |-> FALSE,
             maxFileSize |-> 500 * MiB, averageSpeed |-> 100]
      [] name = LlamaParse ->
            [ocr |-> TRUE, tables |-> TRUE, images |-> TRUE, forms |-> TRUE,
             streaming |-> FALSE, customInstructions |-> TRUE,
             maxFileSize |-> 100 * MiB, averageSpeed |-> 5]
      [] name = Mimic ->
            [ocr |-> TRUE, tables |-> TRUE, images |-> TRUE, forms |-> TRUE,
             streaming |-> TRUE, customInstructions |-> TRUE,
             maxFileSize |-> 200 * MiB, averageSpeed |-> 20]
      [] name = Docling ->
            [ocr |-> TRUE, tables |-> TRUE, images |-> TRUE, forms |-> TRUE,
             streaming |-> FALSE, customInstructions |-> TRUE,
             maxFileSize |-> 100 * MiB, averageSpeed |-> 10]

\* A Document as the registry sees it: format (None when unknown), size in
\* bytes (0 when not set), has_scanned_content.
Document(f, n, sc) == [format |-> f, size |-> n, scanned |-> sc]

\* The lazy initialization at the head of can_process: <<outcome, _initialized>>.
\* LlamaParseProvider.initialize raises without an API key and can_process
\* lets it out; IBMDoclingProvider.can_process catches the failure;
\* MimicDocsrayProvider.initialize succeeds; PyMuPDF4LLMProvider never
\* initializes itself.
\* (lazy_initialize_caught is the initialization as the specification words
\* it: every failure is caught inside can_process.)
lazy_initialize_caught(name, init) ==
    IF init[name] \/ name = PyMuPDF
    THEN <<"ok", init>>
    ELSE IF pcfg[name] = "good"
         THEN <<"ok", [init EXCEPT ![name] = TRUE]>>
         ELSE <<"ok", init>>
lazy_initialize(name, init) ==
    IF init[name] \/ name = PyMuPDF
    THEN <<"ok", init>>
    ELSE IF pcfg[name] = "good"
         THEN <<"ok", [init EXCEPT ![name] = TRUE]>>
         ELSE IF name = LlamaParse
              THEN <<"raise", init>>
              ELSE <<"ok", init>>

\* can_process: [ans |-> "yes" | "no" | "raise", init |-> the _initialized
\* flags afterwards]
can_process(name, doc, init) ==
    LET li == lazy_initialize(name, init)
        init2 == li[2]
    IN  IF li[1] = "raise"
        THEN [ans |-> "raise", init |-> init2]
        ELSE IF ~init2[name]
        THEN [ans |-> "no", init |-> init2]
        ELSE IF doc.format # None /\ doc.format \notin Formats(name)
        THEN [ans |-> "no", init |-> init2]
        ELSE IF doc.size # 0 /\ doc.size > Capabilities(name).maxFileSize
        THEN [ans |-> "no", init |-> init2]
        ELSE [ans |-> "yes", init |-> init2]

MinOf(a, b) == IF a <= b THEN a ELSE b

\* str.lower() on the format names in use
Lower(str) == CASE str = "PDF" -> "pdf" [] OTHER -> str

\* ProviderRegistry._score_provider on a provider's capabilities (its
\* formats apart), in hundredths of a point
score_speed_always(caps, formats, doc, op) ==
    LET fmt == IF doc.format # None /\ Lower(doc.format) \in formats
               THEN 1000 ELSE 0
        opb == CASE op = "xray" -> IF caps.customInstructions THEN 500 ELSE 0
                 [] op = "extract" ->
                       (IF doc.scanned /\ caps.ocr THEN 800 ELSE 0)
                       + (IF caps.tables THEN 200 ELSE 0)
                 [] op = "map" -> IF caps.streaming THEN 300 ELSE 0
                 [] OTHER -> 0
        perf == MinOf(caps.averageSpeed, 500)
    IN  fmt + opb + perf
score(caps, formats, doc, op) ==
    LET fmt == IF doc.format # None /\ Lower(doc.format) \in formats
               THEN 1000 ELSE 0
        opb == CASE op = "xray" -> IF caps.customInstructions THEN 500 ELSE 0
                 [] op = "extract" ->
                       (IF doc.scanned /\ caps.ocr THEN 800 ELSE 0)
                       + (IF caps.tables THEN 200 ELSE 0)
                 [] op = "map" -> IF caps.streaming THEN 300 ELSE 0
                 [] OTHER -> 0
        perf == IF doc.size # 0 /\ doc.size > 10 * MiB
                THEN MinOf(caps.averageSpeed, 500) ELSE 0
    IN  fmt + opb + perf

\* ProviderRegistry._score_provider(provider, document, operation)
score_provider(name, doc, op) == score(Capabilities(name), Formats(name), doc, op)

RECURSIVE scan_providers(_, _, _, _, _)
\* for name, provider in self._providers.items():
\*     if await provider.can_process(document): candidates.append(...)
scan_providers(names, doc, init, cand, i) ==
    IF i > Len(names)
    THEN [raised |-> FALSE, init |-> init, cand |-> cand]
    ELSE LET r == can_process(names[i], doc, init) IN
         IF r.ans = "raise"
         THEN [raised |-> TRUE, init |-> r.init, cand |-> cand]
         ELSE scan_providers(names, doc, r.init,
                             IF r.ans = "yes" THEN Append(cand, names[i]) ELSE cand,
                             i + 1)

best_candidate_last(cand, doc, op) ==
    cand[CHOOSE i \in 1..Len(cand) :
        /\ \A j \in 1..Len(cand) :
              score_provider(cand[i], doc, op) >= score_provider(cand[j], doc, op)
        /\ \A j \in (i+1)..Len(cand) :
              score_provider(cand[j], doc, op) < score_provider(cand[i], doc, op)]
\* candidates.sort(key=lambda x: x[0], reverse=True); candidates[0][1]:
\* the sort is stable, so the first examined of the best score
best_candidate(cand, doc, op) ==
    cand[CHOOSE i \in 1..Len(cand) :
        /\ \A j \in 1..Len(cand) :
              score_provider(cand[i], doc, op) >= score_provider(cand[j], doc, op)
        /\ \A j \in 1..(i-1) :
              score_provider(cand[j], doc, op) < score_provider(cand[i], doc, op)]

Registered(name) == \E i \in 1..Len(providers) : providers[i] = name

\* ProviderRegistry.select_provider: [out |-> a provider name, None or Raised,
\* init |-> the _initialized flags afterwards]
select_provider(doc, op, pref) ==
    LET first == IF pref # None /\ pref # "auto" /\ Registered(pref)
                 THEN can_process(pref, doc, pinit)
                 ELSE [ans |-> "no", init |-> pinit]
    IN  IF first.ans = "raise"
        THEN [out |-> Raised, init |-> first.init]
        ELSE IF first.ans = "yes"
        THEN [out |-> pref, init |-> first.init]
        ELSE LET s == scan_providers(providers, doc, first.init, <<>>, 1) IN
             IF s.raised
             THEN [out |-> Raised, init |-> s.init]
             ELSE IF s.cand = <<>>
             THEN [out |-> None, init |-> s.init]
             ELSE [out |-> best_candidate(s.cand, doc, op), init |-> s.init]

NoDoc == Document(None, 0, FALSE)
NoSel == [doc |-> NoDoc, op |-> None, pref |-> None, out |-> None, done |-> FALSE]

\* The documents, operations and preferences select_provider is called with.
SelDocs ==
    {Document("pdf", 0, FALSE), Document("pdf", 50 * MiB, TRUE),
     Document("pdf", 150 * MiB, FALSE), Document("txt", 0, FALSE),
     Document(None, 0, FALSE), Document("xyz", 0, FALSE)}
SelOps == {"peek", "map", "xray", "extract"}
SelPrefs == ProviderNames \cup {"auto"}

\* unregister: `if self._default_provider == name:
\* self._default_provider = next(iter(self._providers), None)`, on the
\* providers left
default_after_unregister_kept(rest, default, name) == default
default_after_unregister(rest, default, name) ==
    IF default = name
    THEN IF rest = <<>> THEN None ELSE rest[1]
    ELSE default

\* ProviderRegistry.register
Register(name) ==
    /\ ~sel.done
    /\ providers' = IF Registered(name) THEN providers ELSE Append(providers, name)
    /\ dflt' = IF dflt = None THEN name ELSE dflt
    /\ UNCHANGED <<sel, pinit, pcfg, cacheVars, taskVars, toolVars, llamaVars, restVars>>

\* ProviderRegistry.unregister
Unregister(name) ==
    /\ ~sel.done
    /\ Registered(name)
    /\ providers' = SelectSeq(providers, LAMBDA n : n # name)
    /\ dflt' = default_after_unregister(providers', dflt, name)
    /\ UNCHANGED <<sel, pinit, pcfg, cacheVars, taskVars, toolVars, llamaVars, restVars>>

\* await registry.select_provider(document, operation, user_preference)
SelectProvider(doc, op, pref) ==
    /\ ~sel.done
    /\ LET r == select_provider(doc, op, pref) IN
       /\ sel' = [doc |-> doc, op |-> op, pref |-> pref, out |-> r.out, done |-> TRUE]
       /\ pinit' = r.init
    /\ UNCHANGED <<providers, dflt, pcfg, cacheVars, taskVars, toolVars, llamaVars, restVars>>

\* The caller has taken select_provider's answer.
SelectReturn ==
    /\ sel.done
    /\ sel' = NoSel
    /\ UNCHANGED <<providers, dflt, pinit, pcfg, cacheVars, taskVars, toolVars, llamaVars, restVars>>

\* No provider is registered; the provider objects are as
\* DocsrayServer._initialize_providers builds them: PyMuPDF4LLM marked
\* initialized, the others with their configuration attached for lazy
\* initialization (LlamaParse with or without an API key, Docling with or
\* without its library).
RegistryEmpty ==
    /\ providers = <<>>
    /\ dflt = None
    /\ pinit = [n \in ProviderNames |-> n = PyMuPDF]
    /\ pcfg \in {c \in [ProviderNames -> {"good", "bad"}] :
                    c[PyMuPDF] = "good" /\ c[Mimic] = "good"}
    /\ sel = NoSel

\* The registry while only the cache is exercised.
RegistryIdle ==
    /\ providers = <<>>
    /\ dflt = None
    /\ pinit = [n \in ProviderNames |-> n = PyMuPDF]
    /\ pcfg = [n \in ProviderNames |-> "good"]
    /\ sel = NoSel

RegistryNext ==
    \/ \E n \in ProviderNames : Register(n)
    \/ \E n \in ProviderNames : Unregister(n)
    \/ \E d \in SelDocs, o \in SelOps, p \in SelPrefs : SelectProvider(d, o, p)
    \/ SelectReturn

(***************************************************************************)
(* The tool handlers: validate, cache lookup, provider selection, provider *)
(* operation, cache store.                                                 *)
(***************************************************************************)
MaxCalls == 3

Tools == {"peek", "map", "seek", "xray", "extract"}
\* A document URL is <<stem, suffix>>.
Urls == {<<"a", ".pdf">>}
\* What a provider operation hands back.
Payloads == {"r1", "r2"}

FORMAT_EXTENSIONS ==
    [e \in {".pdf", ".xps", ".epub", ".cbz", ".svg", ".png", ".jpg", ".jpeg",
            ".docx", ".pptx", ".txt"} |->
        CASE e = ".pdf" -> "pdf" [] e = ".xps" -> "xps" [] e = ".epub" -> "epub"
          [] e = ".cbz" -> "cbz" [] e = ".svg" -> "svg" [] e = ".png" -> "png"
          [] e = ".jpg" -> "jpg" [] e = ".jpeg" -> "jpg" [] e = ".docx" -> "docx"
          [] e = ".pptx" -> "pptx" [] e = ".txt" -> "txt"]

\* mimetypes.guess_type followed by MIME_TO_FORMAT, for suffixes outside
\* FORMAT_EXTENSIONS
MimeFormat(ext) ==
    CASE ext = ".jpe" -> "jpg"
      [] ext = ".text" -> "txt"
      [] OTHER -> None

get_document_format(url) ==
    IF url[2] \in DOMAIN FORMAT_EXTENSIONS
    THEN FORMAT_EXTENSIONS[url[2]]
    ELSE MimeFormat(url[2])

\* The enumerated option each handler validates (seek validates nothing).
ValidOptions(tool) ==
    CASE tool = "peek" -> {"metadata", "structure", "preview"}
      [] tool = "map" -> {"shallow", "deep", "comprehensive"}
      [] tool = "xray" ->
            {"entities", "relationships", "key-points", "sentiment", "structure"}
      [] tool = "extract" ->
            {"text", "tables", "images", "forms", "metadata", "equations", "layout"}

\* The option values the handlers are invoked with: one the handler accepts
\* and one outside its enumeration.
Options(tool) ==
    CASE tool = "peek" -> {"metadata", "everything"}
      [] tool = "map" -> {"deep", "everything"}
      [] tool = "seek" -> {"page-1"}
      [] tool = "xray" -> {"entities", "everything"}
      [] tool = "extract" -> {"tables", "everything"}

Prefs == {"auto"}

\* A plain-text document, which the handlers are asked to peek at.
TextUrl == <<"n", ".txt">>

Requests ==
    {r \in [tool : Tools, url : Urls,
            opt : UNION {Options(tl) : tl \in Tools}, pref : Prefs] :
        r.opt \in Options(r.tool)}
    \cup {[tool |-> "peek", url |-> TextUrl, opt |-> "metadata", pref |-> "auto"]}

NoReq == [tool |-> None, url |-> Absent, opt |-> None, pref |-> None]

valid_request(req) ==
    req.tool = "seek" \/ req.opt \in ValidOptions(req.tool)

\* An options map is the sequence of its <<name, value>> items in insertion
\* order; a value is a scalar or a list.
Scalar(v) == <<"s", <<v>>>>
List(elems) == <<"l", elems>>
IsList(v) == v[1] = "l"

\* DocumentCache._normalize_options: the copy without the three volatile
\* options and with every list value sorted
VolatileOptions == {"timestamp", "request_id", "session_id"}
normalize_options_unsorted(options) ==
    SelectSeq(options, LAMBDA item : item[1] \notin VolatileOptions)
normalize_options(options) ==
    LET kept == SelectSeq(options, LAMBDA item : item[1] \notin VolatileOptions)
    IN  [i \in 1..Len(kept) |->
            IF IsList(kept[i][2])
            THEN <<kept[i][1],
                   List(SortSeq(kept[i][2][2], LAMBDA x, y : x < y))>>
            ELSE kept[i]]

\* json.dumps(..., sort_keys=True) of a map: its items in the order of
\* their names, which the set of the items determines.
dumps_sorted(items) == {items[i] : i \in 1..Len(items)}

\* DocumentCache.generate_key: the SHA-256 of the JSON text, with sorted
\* keys, of url, operation and the normalized options; the key is the
\* content of that text.
generate_key(url, operation, options) ==
    <<url, operation, dumps_sorted(normalize_options(options))>>

KeyOf(req) ==
    generate_key(req.url, req.tool,
                 <<(<<"option", Scalar(req.opt)>>),
                   (<<"provider", Scalar(req.pref)>>)>>)

\* Responses: <<"ok", tool, provider, payload>>, or <<"error", kind>>.
Success(tool, name, payload) == <<"ok", tool, name, payload>>
ErrorResponse(kind) == <<"error", kind>>
IsError(resp) == resp # Absent /\ resp[1] = "error"

\* `if cached_result:`
cached_result_missed(v) == FALSE
cached_result_truthy(v) == v # Absent

\* handle_xray replaces the preference "auto" by llama-parse before selection.
effective_preference(tool, pref) ==
    IF tool = "xray" /\ pref = "auto" THEN LlamaParse ELSE pref

\* What the handler does with select_provider's answer: an error response,
\* or the provider to call.
after_selection_unchecked(tool, out) ==
    IF out = Raised THEN [err |-> "exception", prov |-> None]
    ELSE IF out = None THEN [err |-> "no_provider", prov |-> None]
    ELSE [err |-> None, prov |-> out]
after_selection(tool, out) ==
    IF out = Raised THEN [err |-> "exception", prov |-> None]
    ELSE IF out = None THEN [err |-> "no_provider", prov |-> None]
    ELSE IF tool = "xray" /\ ~Capabilities(out).customInstructions
    THEN [err |-> "no_custom_instructions", prov |-> None]
    ELSE [err |-> None, prov |-> out]

\* What the handler does when the provider operation is over: a result is
\* formatted into the response and goes on to cache.set; an exception jumps
\* to the handler's except clause, past cache.set.
call_result_stored(tool, name, outcome) ==
    IF outcome = Raised
    THEN [resp |-> ErrorResponse("exception"), store |-> TRUE]
    ELSE [resp |-> Success(tool, name, outcome), store |-> TRUE]
call_result(tool, name, outcome) ==
    IF outcome = Raised
    THEN [resp |-> ErrorResponse("exception"), store |-> FALSE]
    ELSE [resp |-> Success(tool, name, outcome), store |-> TRUE]

\* The value a lookup at time t finds under k: the stored value while the
\* entry is within its time to live, Absent otherwise.
LiveValue(c, k, t) ==
    LET e == Lookup(c, k) IN
    IF k \in KeysOf(c) /\ t - e.timestamp <= Ttl THEN e.value ELSE Absent

\* What one step changed in the cache, from the entries c before to the
\* entries c2 after, at time t.
Delta(c, c2, t) ==
    {<<"added", k>> : k \in KeysOf(c2) \ KeysOf(c)}
    \cup {<<IF t - Lookup(c, k).timestamp > Ttl THEN "expired-removed"
            ELSE "removed", k>> : k \in KeysOf(c) \ KeysOf(c2)}
    \cup {<<"replaced", k>> : k \in {x \in KeysOf(c) \cap KeysOf(c2) :
            \/ Lookup(c, x).value # Lookup(c2, x).value
            \/ Lookup(c, x).timestamp # Lookup(c2, x).timestamp}}
    \cup {<<"accessed", k>> : k \in {x \in KeysOf(c) \cap KeysOf(c2) :
            Lookup(c, x).access_count # Lookup(c2, x).access_count}}

\* An invocation's frame.  live, put and delta record what the invocation
\* met and did in the cache: the live value under its key when it looked
\* up, the entry under its key right after its cache.set, and the changes
\* its own steps made; asked is the preference it handed to
\* select_provider.
HIdle ==
    [pc |-> "idle", req |-> NoReq, prov |-> None, resp |-> Absent,
     live |-> Absent, put |-> NoEntry, delta |-> {},
     looked |-> FALSE, selected |-> FALSE, called |-> FALSE, asked |-> None]

\* The invocation slots are interchangeable: a new invocation takes the
\* first free one.
FirstTask(u, t) == u = "t1" /\ t = "t2"

\* handle_xxx(document_url, option, provider, registry, cache): validation
Invoke(t, req) ==
    /\ h[t].pc = "idle"
    /\ \A u \in Tasks : FirstTask(u, t) => h[u].pc # "idle"
    /\ ncalls < MaxCalls
    /\ ncalls' = ncalls + 1
    /\ h' = [h EXCEPT ![t] =
                IF valid_request(req)
                THEN [HIdle EXCEPT !.pc = "lookup", !.req = req]
                ELSE [HIdle EXCEPT !.pc = "done", !.req = req,
                                   !.resp = ErrorResponse("invalid")]]
    /\ UNCHANGED <<cacheVars, taskVars, regVars, llamaVars, restVars>>

\* cached_result = await cache.get(cache_key); if cached_result: return
CacheLookup(t) ==
    /\ h[t].pc = "lookup"
    /\ lock_free
    /\ LET key == KeyOf(h[t].req)
           r == IF enabled THEN get_body(cache, key, now) ELSE <<Absent, cache>>
       IN  /\ cache' = r[2]
           /\ h' = [h EXCEPT ![t] =
                [@ EXCEPT !.looked = TRUE,
                          !.live = LiveValue(cache, key, now),
                          !.delta = @ \cup Delta(cache, r[2], now),
                          !.resp = IF cached_result_truthy(r[1]) THEN r[1] ELSE Absent,
                          !.pc = IF cached_result_truthy(r[1]) THEN "done"
                                 ELSE "select"]]
    /\ UNCHANGED <<enabled, lock, now, ncalls, taskVars, regVars, llamaVars, restVars>>

\* document = Document(url, format); selected_provider = await
\* registry.select_provider(document, operation, provider); the checks on
\* the answer
Select(t) ==
    /\ h[t].pc = "select"
    /\ LET req == h[t].req
           doc == Document(get_document_format(req.url), 0, FALSE)
           s == select_provider(doc, req.tool,
                                effective_preference(req.tool, req.pref))
           a == after_selection(req.tool, s.out)
       IN  /\ pinit' = s.init
           /\ h' = [h EXCEPT ![t] =
                [@ EXCEPT !.selected = TRUE,
                          !.asked = effective_preference(req.tool, req.pref),
                          !.prov = a.prov,
                          !.resp = IF a.err # None THEN ErrorResponse(a.err)
                                   ELSE Absent,
                          !.pc = IF a.err # None THEN "done" ELSE "call"]]
    /\ UNCHANGED <<providers, dflt, pcfg, sel, ncalls, cacheVars, taskVars, llamaVars, restVars>>

\* result = await selected_provider.operation(document, options), which
\* returns a result or raises; the response is formatted
ProviderCall(t, outcome) ==
    /\ h[t].pc = "call"
    /\ LET r == call_result(h[t].req.tool, h[t].prov, outcome) IN
       h' = [h EXCEPT ![t] =
                [@ EXCEPT !.called = TRUE,
                          !.resp = r.resp,
                          !.pc = IF r.store THEN "store" ELSE "done"]]
    /\ UNCHANGED <<ncalls, cacheVars, taskVars, regVars, llamaVars, restVars>>

\* await cache.set(cache_key, response, ...); return response
CacheStore(t) ==
    /\ h[t].pc = "store"
    /\ lock_free
    /\ LET key == KeyOf(h[t].req)
           c2 == IF enabled THEN set_body(cache, key, h[t].resp, now) ELSE cache
       IN  /\ cache' = c2
           /\ h' = [h EXCEPT ![t] =
                [@ EXCEPT !.put = Lookup(c2, key),
                          !.delta = @ \cup Delta(cache, c2, now),
                          !.pc = "done"]]
    /\ UNCHANGED <<enabled, lock, now, ncalls, taskVars, regVars, llamaVars, restVars>>

\* The caller has the response.
Return(t) ==
    /\ h[t].pc = "done"
    /\ h' = [h EXCEPT ![t] = HIdle]
    /\ UNCHANGED <<ncalls, cacheVars, taskVars, regVars, llamaVars, restVars>>

ToolsIdle ==
    /\ h = [t \in Tasks |-> HIdle]
    /\ ncalls = 0

\* The registries DocsrayServer._initialize_providers builds, in its fixed
\* order, from the enabled providers.
ServerRegistries ==
    {<<>>, <<PyMuPDF>>, <<PyMuPDF, LlamaParse>>}

ServerRegistry ==
    /\ providers \in ServerRegistries
    /\ dflt = IF providers = <<>> THEN None ELSE providers[1]
    /\ pinit = [n \in ProviderNames |-> n = PyMuPDF]
    /\ pcfg \in {c \in [ProviderNames -> {"good", "bad"}] :
                    /\ c[PyMuPDF] = "good" /\ c[Mimic] = "good"
                    /\ c[Docling] = "good"
                    /\ c[LlamaParse] = "bad" => Registered(LlamaParse)}
    /\ sel = NoSel

ToolsNext ==
    \/ Tick
    \/ \E t \in Tasks, r \in Requests : Invoke(t, r)
    \/ \E t \in Tasks : CacheLookup(t)
    \/ \E t \in Tasks : Select(t)
    \/ \E t \in Tasks, o \in Payloads \cup {Raised} : ProviderCall(t, o)
    \/ \E t \in Tasks : CacheStore(t)
    \/ \E t \in Tasks : Return(t)

(***************************************************************************)
(* LlamaParseCache (the persistent extraction cache) and                   *)
(* LlamaParseProvider._parse_document.                                     *)
(***************************************************************************)
MaxParses == 3

\* The document's possible bytes, and the parsing instructions
\* _parse_document is called with (None: no instruction).
Contents == {"x", "y", "z"}
Instrs == {None, "A", "B"}

\* _compute_document_hash: the SHA-256 of the bytes, as <<the first 8 hex
\* digits, the rest>>; x and y agree on the first 8 digits.
Hash(c) ==
    CASE c = "x" -> <<"0a1b2c3d", "x">>
      [] c = "y" -> <<"0a1b2c3d", "y">>
      [] c = "z" -> <<"9f8e7d6c", "z">>

\* get_cache_dir: <stem>.<first 8 hex digits>.docsray, for the one document
get_cache_dir(c) == Hash(c)[1]

DirNames == {get_cache_dir(c) : c \in Contents}

\* A cache directory: metadata.json's document_hash and parsing_instruction,
\* and extraction_result.json.
NoDir == [exists |-> FALSE, hash |-> Absent, instr |-> None, payload |-> Absent]
NoDirs == [d \in DirNames |-> NoDir]

\* store_extraction(document_path, extraction_result, parsing_instruction)
store_extraction(ds, c, payload, i) ==
    [ds EXCEPT ![get_cache_dir(c)] =
        [exists |-> TRUE, hash |-> Hash(c), instr |-> i, payload |-> payload]]

\* retrieve_extraction(document_path, parsing_instruction): the result and
\* the directories afterwards
retrieve_extraction_any(ds, c, i) ==
    LET d == ds[get_cache_dir(c)] IN
    IF ~d.exists THEN [result |-> Absent, dirs |-> ds]
    ELSE IF d.hash # Hash(c) THEN [result |-> Absent, dirs |-> ds]
    ELSE [result |-> d.payload, dirs |-> ds]
retrieve_extraction(ds, c, i) ==
    LET d == ds[get_cache_dir(c)] IN
    IF ~d.exists THEN [result |-> Absent, dirs |-> ds]
    ELSE IF d.hash # Hash(c) THEN [result |-> Absent, dirs |-> ds]
    ELSE IF i # None /\ d.instr # i THEN [result |-> Absent, dirs |-> ds]
    ELSE [result |-> d.payload, dirs |-> ds]

\* What the hosted API returns for the uploaded bytes under the parser's
\* instruction, normalised by _parse_document.
Parsed(c, i) == <<"parsed", c, i>>
ParseRaised == <<"raised">>

NoStore == [exists |-> FALSE, content |-> None, instr |-> None, payload |-> Absent]
\* The cache check of a call that has not made it.
NoRet == [done |-> FALSE, content |-> None, result |-> Absent,
          before |-> NoStore, kept |-> TRUE]
\* A _parse_document call's frame: its instruction, its cache check (the
\* bytes then, what retrieve_extraction returned, the last store into the
\* document's directory before it, whether the directories were left as
\* they were), the bytes sent to the API and the instruction the parser
\* held, whether a result had already been stored under the call's
\* instruction for these bytes when the API was invoked, and the result.
LIdle == [pc |-> "idle", instr |-> None, ret |-> NoRet, sent |-> None,
          used |-> None, again |-> FALSE, result |-> Absent]

\* The document's bytes are changed.
Mutate(c) ==
    /\ c # dbytes
    /\ dbytes' = c
    /\ storedFor' = {}
    /\ UNCHANGED <<dirs, parser, lp, nparse, lstore>>
    /\ UNCHANGED <<cacheVars, taskVars, regVars, toolVars, restVars>>

\* _parse_document(doc_path, parsing_instruction) up to the hosted API call:
\* lazy initialization, the cache check, the parser's instruction
ParseCall(t, i) ==
    /\ lp[t].pc = "idle"
    /\ \A u \in Tasks : FirstTask(u, t) => lp[u].pc # "idle"
    /\ nparse < MaxParses
    /\ nparse' = nparse + 1
    /\ LET li == lazy_initialize(LlamaParse, pinit) IN
       IF li[1] = "raise" \/ ~li[2][LlamaParse]
       THEN /\ pinit' = li[2]
            /\ lp' = [lp EXCEPT ![t] =
                        [LIdle EXCEPT !.pc = "done", !.instr = i,
                                      !.result = ParseRaised]]
            /\ UNCHANGED <<dirs, parser>>
       ELSE LET r == retrieve_extraction(dirs, dbytes, i)
                ret == [done |-> TRUE, content |-> dbytes, result |-> r.result,
                        before |-> lstore[get_cache_dir(dbytes)],
                        kept |-> r.dirs = dirs]
            IN
            /\ pinit' = li[2]
            /\ dirs' = r.dirs
            /\ IF r.result # Absent
               THEN /\ lp' = [lp EXCEPT ![t] =
                                [LIdle EXCEPT !.pc = "done", !.instr = i,
                                              !.ret = ret,
                                              !.result = r.result]]
                    /\ UNCHANGED parser
               ELSE /\ parser' = IF i # None THEN i ELSE parser
                    /\ lp' = [lp EXCEPT ![t] =
                                [LIdle EXCEPT !.pc = "api", !.instr = i,
                                              !.ret = ret,
                                              !.sent = dbytes,
                                              !.used = parser',
                                              !.again = i \in storedFor]]
    /\ UNCHANGED <<dbytes, lstore, storedFor>>
    /\ UNCHANGED <<providers, dflt, pcfg, sel, cacheVars, taskVars, toolVars, restVars>>

\* The hosted API call is over: it failed, or its documents are normalised
\* and stored with store_extraction and returned.
ApiReturn(t, ok) ==
    /\ lp[t].pc = "api"
    /\ IF ok
       THEN LET result == Parsed(lp[t].sent, lp[t].used) IN
            /\ dirs' = store_extraction(dirs, dbytes, result, lp[t].instr)
            /\ lstore' = [lstore EXCEPT ![get_cache_dir(dbytes)] =
                            [exists |-> TRUE, content |-> dbytes,
                             instr |-> lp[t].instr, payload |-> result]]
            /\ storedFor' = storedFor \cup {lp[t].instr}
            /\ lp' = [lp EXCEPT ![t] = [@ EXCEPT !.pc = "done", !.result = result]]
       ELSE /\ lp' = [lp EXCEPT ![t] = [@ EXCEPT !.pc = "done", !.result = ParseRaised]]
            /\ UNCHANGED <<dirs, lstore, storedFor>>
    /\ UNCHANGED <<dbytes, parser, nparse>>
    /\ UNCHANGED <<cacheVars, taskVars, regVars, toolVars, restVars>>

\* The caller has _parse_document's result.
ParseReturn(t) ==
    /\ lp[t].pc = "done"
    /\ lp' = [lp EXCEPT ![t] = LIdle]
    /\ UNCHANGED <<dbytes, dirs, parser, nparse, lstore, storedFor>>
    /\ UNCHANGED <<cacheVars, taskVars, regVars, toolVars, restVars>>

\* clear_cache(): every cache directory is removed.
ClearCache ==
    /\ \E d \in DirNames : dirs[d].exists
    /\ dirs' = NoDirs
    /\ lstore' = [d \in DirNames |-> NoStore]
    /\ storedFor' = {}
    /\ UNCHANGED <<dbytes, parser, lp, nparse>>
    /\ UNCHANGED <<cacheVars, taskVars, regVars, toolVars, restVars>>

LlamaIdle ==
    /\ dbytes = "x"
    /\ dirs = NoDirs
    /\ parser = None
    /\ lp = [t \in Tasks |-> LIdle]
    /\ nparse = 0
    /\ lstore = [d \in DirNames |-> NoStore]
    /\ storedFor = {}

\* The server with the LlamaParse provider registered, with or without an
\* API key.
LlamaRegistry ==
    /\ providers = <<PyMuPDF, LlamaParse>>
    /\ dflt = PyMuPDF
    /\ pinit = [n \in ProviderNames |-> n = PyMuPDF]
    /\ pcfg \in {c \in [ProviderNames -> {"good", "bad"}] :
                    \A n \in ProviderNames \ {LlamaParse} : c[n] = "good"}
    /\ sel = NoSel

LlamaNext ==
    \/ \E c \in Contents : Mutate(c)
    \/ \E t \in Tasks, i \in Instrs : ParseCall(t, i)
    \/ \E t \in Tasks, ok \in BOOLEAN : ApiReturn(t, ok)
    \/ \E t \in Tasks : ParseReturn(t)
    \/ ClearCache

(***************************************************************************)
(* The error boundary of the tool handlers: the try/except blocks of       *)
(* handle_peek, handle_map, handle_seek, handle_xray, handle_extract,      *)
(* handle_fetch (with _fetch_from_url / _fetch_from_filesystem) and        *)
(* handle_search.                                                          *)
(***************************************************************************)
Handlers == Tools \cup {"fetch", "search"}
CacheStrategies == {"use-cache", "bypass-cache", "refresh-cache"}
ReturnFormats == {"raw", "processed", "metadata-only"}
\* The exceptions a call can raise, by type name.
ExcTypes == {"ValueError", "TimeoutError"}

\* The calls a handler makes inside its try block, in order.  handle_fetch
\* reads the cache only under use-cache, selects a provider and extracts
\* only for the processed format, and writes the cache unless bypassing.
Flow(handler, strategy, fmt) ==
    IF handler \in Tools
    THEN <<"generate_key", "cache.get", "select_provider", "operation",
           "cache.set">>
    ELSE IF handler = "search"
    THEN <<"generate_key", "cache.get", "search", "cache.set">>
    ELSE <<"generate_key">>
         \o (IF strategy = "use-cache" THEN <<"cache.get">> ELSE <<>>)
         \o <<"read_source">>
         \o (IF fmt = "processed" THEN <<"select_provider", "operation">>
             ELSE <<>>)
         \o (IF strategy # "bypass-cache" THEN <<"cache.set">> ELSE <<>>)

\* What the caller gets: a map with or without an error field, a type
\* field and a warning field; raises: the handler raised instead.
NoResp == [error |-> FALSE, type |-> None, warning |-> FALSE, raises |-> FALSE]

\* The handlers' outermost clause:
\* except Exception as e: return {"error": str(e), "type": type(e).__name__}
handler_except_reraise(e) == [NoResp EXCEPT !.raises = TRUE, !.type = e]
handler_except(e) == [NoResp EXCEPT !.error = TRUE, !.type = e]

\* The clause around the fetch helpers' body:
\* except Exception as e: return {"error": ..., "type": type(e).__name__, ...}
helper_except(e) == [NoResp EXCEPT !.error = TRUE, !.type = e]

\* The clause around the fetch helpers' processing block:
\* except Exception as e: result["warning"] = f"Processing failed: {e}"
processing_except(result, e) == [result EXCEPT !.warning = TRUE]

\* The innermost try block a call is made in.
Enclosing(handler, step) ==
    IF handler = "fetch" /\ step \in {"select_provider", "operation"}
    THEN "processing"
    ELSE IF handler = "fetch" /\ step = "read_source" THEN "helper"
    ELSE "handler"

\* The flow with the calls of the fetch helper taken out (the helper has
\* returned).
AfterHelper(flow) ==
    SelectSeq(flow, LAMBDA st : st \notin {"read_source", "select_provider",
                                            "operation"})

\* How a call can end: it returns, it raises, cache.get returns a stored
\* result, select_provider returns no provider.
StepOutcomes(step) ==
    {"ok"} \cup ExcTypes
    \cup (IF step = "cache.get" THEN {"hit"} ELSE {})
    \cup (IF step = "select_provider" THEN {"none"} ELSE {})

BIdle == [pc |-> "idle", handler |-> None, strategy |-> None, fmt |-> None,
          flow |-> <<>>, result |-> NoResp, raised |-> <<>>, resp |-> NoResp]

\* handle_xxx(...) is entered with valid arguments.
BoundaryInvoke(handler, strategy, fmt) ==
    /\ bnd.pc = "idle"
    /\ handler = "fetch" \/ (strategy = "use-cache" /\ fmt = "raw")
    /\ bnd' = [BIdle EXCEPT !.pc = "run", !.handler = handler,
                          !.strategy = strategy, !.fmt = fmt,
                          !.flow = Flow(handler, strategy, fmt)]
    /\ UNCHANGED <<cacheVars, taskVars, regVars, toolVars, llamaVars, fetchVars, serverVars, moreVars, pureVars>>

\* The state of the invocation once the flow that is left is rest: the
\* handler returns its result when nothing is left.
Continue(fr, result, rest) ==
    IF rest = <<>>
    THEN [fr EXCEPT !.pc = "done", !.flow = <<>>, !.result = result,
                    !.resp = result]
    ELSE [fr EXCEPT !.flow = rest, !.result = result]

\* The next call of the handler is made and ends with outcome.
BoundaryStep(outcome) ==
    /\ bnd.pc = "run"
    /\ LET step == Head(bnd.flow)
           rest == Tail(bnd.flow)
           fr == IF outcome \in ExcTypes
                 THEN [bnd EXCEPT !.raised = Append(@, <<step, outcome>>)]
                 ELSE bnd
       IN
       /\ outcome \in StepOutcomes(step)
       /\ bnd' =
           CASE outcome = "ok" -> Continue(fr, bnd.result, rest)
             [] outcome = "hit" ->
                    [fr EXCEPT !.pc = "done", !.flow = <<>>, !.resp = NoResp]
             [] outcome = "none" ->
                    IF bnd.handler = "fetch"
                    THEN Continue(fr, [bnd.result EXCEPT !.warning = TRUE],
                                  AfterHelper(rest))
                    ELSE [fr EXCEPT !.pc = "done", !.flow = <<>>,
                                    !.resp = [NoResp EXCEPT !.error = TRUE]]
             [] outcome \in ExcTypes ->
                    CASE Enclosing(bnd.handler, step) = "processing" ->
                            Continue(fr, processing_except(bnd.result, outcome),
                                     AfterHelper(rest))
                      [] Enclosing(bnd.handler, step) = "helper" ->
                            Continue(fr, helper_except(outcome),
                                     AfterHelper(rest))
                      [] Enclosing(bnd.handler, step) = "handler" ->
                            [fr EXCEPT !.pc = "done", !.flow = <<>>,
                                       !.resp = handler_except(outcome)]
    /\ UNCHANGED <<cacheVars, taskVars, regVars, toolVars, llamaVars, fetchVars, serverVars, moreVars, pureVars>>

\* The caller has the response.
BoundaryReturn ==
    /\ bnd.pc = "done"
    /\ bnd' = BIdle
    /\ UNCHANGED <<cacheVars, taskVars, regVars, toolVars, llamaVars, fetchVars, serverVars, moreVars, pureVars>>

BoundaryIdle == bnd = BIdle

BoundaryNext ==
    \/ \E hd \in Handlers, st \in CacheStrategies, fm \in ReturnFormats :
            BoundaryInvoke(hd, st, fm)
    \/ \E o \in {"ok", "hit", "none"} \cup ExcTypes : BoundaryStep(o)
    \/ BoundaryReturn

(***************************************************************************)
(* handle_fetch on a local file, with the result cache and the registry.   *)
(***************************************************************************)
MaxFetches == 3

\* The document handle_fetch is asked for: an existing local file.
FetchSource == <<"a", ".pdf">>
\* What the provider's extract hands back.
FetchContents == {"c1"}

FetchRequests == [strategy : CacheStrategies, fmt : ReturnFormats]
NoFetchReq == [strategy |-> None, fmt |-> None]

\* cache.generate_key(source, "fetch", {cache_strategy, return_format,
\* provider, fetch_options})
FetchKey(req) ==
    generate_key(FetchSource, "fetch",
                 <<(<<"cache_strategy", Scalar(req.strategy)>>),
                   (<<"return_format", Scalar(req.fmt)>>),
                   (<<"provider", Scalar("auto")>>)>>)

\* `if cache_strategy == "use-cache":` around cache.get
reads_cache_unless_bypass(strategy) == strategy # "bypass-cache"
reads_cache(strategy) == strategy = "use-cache"
\* `if cache_strategy != "bypass-cache":` around cache.set
writes_cache(strategy) == strategy # "bypass-cache"

\* The result map of a fetch: <<"fetch", returnFormat, cacheStrategy,
\* whether fileHash is present, processedContent (None: no such key),
\* provider (None: no such key), warning (None: no such key), fromCache>>.
FetchResult(fmt, strategy, hash, content, prov, warning, fromCache) ==
    <<"fetch", fmt, strategy, hash, content, prov, warning, fromCache>>
HasFileHash(r) == r[4]
HasProcessedContent(r) == r[5] # None
WarningOf(r) == r[7]
FromCache(r) == r[8]
\* cached_result["fromCache"] = True
MarkFromCache(r) == [r EXCEPT ![8] = TRUE]
\* result["warning"] = ...
WithWarning(r, w) == [r EXCEPT ![7] = w]
\* result["processedContent"] = ...; result["provider"] = ...
WithContent(r, c, name) == [r EXCEPT ![5] = c, ![6] = name]

\* _fetch_from_filesystem up to the processing block, with the fields
\* handle_fetch adds: the metadata, and the hash for the raw format.
base_result(req) ==
    FetchResult(req.fmt, req.strategy, req.fmt = "raw", None, None, None, FALSE)

\* The entries with the value under k replaced (the stored map is the very
\* object handle_fetch marks).
Replace(c, k, v) ==
    [i \in 1..Len(c) |-> IF c[i].key = k THEN [c[i] EXCEPT !.value = v]
                         ELSE c[i]]

\* A fetch invocation's frame: its request, the result under construction,
\* the selected provider, and what it did: whether it called cache.get and
\* cache.set, whether select_provider or extract raised, and the changes its
\* own steps made to the cache.
FIdle ==
    [pc |-> "idle", req |-> NoFetchReq, result |-> Absent, prov |-> None,
     looked |-> FALSE, hit |-> FALSE, stored |-> FALSE,
     selraised |-> FALSE, exraised |-> FALSE, able |-> FALSE, delta |-> {}]

\* handle_fetch(source, ...) with valid arguments: validation and the key
FetchInvoke(req) ==
    /\ ft.pc = "idle"
    /\ nfetch < MaxFetches
    /\ nfetch' = nfetch + 1
    /\ ft' = [FIdle EXCEPT !.req = req,
                           !.pc = IF reads_cache(req.strategy) THEN "lookup"
                                  ELSE "helper"]
    /\ UNCHANGED <<cacheVars, taskVars, regVars, toolVars, llamaVars,
                   boundaryVars, serverVars, moreVars, pureVars>>

\* cached_result = await cache.get(cache_key); if cached_result: mark it
\* and return it
FetchLookup ==
    /\ ft.pc = "lookup"
    /\ LET key == FetchKey(ft.req)
           r == IF enabled THEN get_body(cache, key, now) ELSE <<Absent, cache>>
           found == cached_result_truthy(r[1])
           c2 == IF found THEN Replace(r[2], key, MarkFromCache(r[1])) ELSE r[2]
       IN  /\ cache' = c2
           /\ ft' = [ft EXCEPT !.looked = TRUE,
                               !.hit = found,
                               !.delta = @ \cup Delta(cache, c2, now),
                               !.result = IF found THEN MarkFromCache(r[1])
                                          ELSE Absent,
                               !.pc = IF found THEN "done" ELSE "helper"]
    /\ UNCHANGED <<enabled, lock, now, nfetch, taskVars, regVars, toolVars,
                   llamaVars, boundaryVars, serverVars, moreVars, pureVars>>

\* Where handle_fetch goes once the helper has returned.
after_helper(strategy) == IF writes_cache(strategy) THEN "store" ELSE "done"

\* _fetch_from_filesystem up to the provider's extract: the metadata, the
\* hash, and for the processed format the selection of a provider
FetchHelper ==
    /\ ft.pc = "helper"
    /\ LET req == ft.req
           doc == Document(get_document_format(FetchSource), 0, FALSE)
           s == select_provider(doc, "extract", "auto")
           able == \E q \in ProviderNames :
                        Registered(q) /\ can_process(q, doc, pinit).ans = "yes"
       IN  IF req.fmt # "processed"
           THEN /\ ft' = [ft EXCEPT !.result = base_result(req),
                                    !.pc = after_helper(req.strategy)]
                /\ UNCHANGED pinit
           ELSE /\ pinit' = s.init
                /\ ft' =
                    IF s.out = Raised
                    THEN [ft EXCEPT !.result = WithWarning(base_result(req), "failed"),
                                    !.selraised = TRUE, !.able = able,
                                    !.pc = after_helper(req.strategy)]
                    ELSE IF s.out = None
                    THEN [ft EXCEPT !.result = WithWarning(base_result(req), "none"),
                                    !.able = able,
                                    !.pc = after_helper(req.strategy)]
                    ELSE [ft EXCEPT !.result = base_result(req),
                                    !.able = able,
                                    !.prov = s.out, !.pc = "extract"]
    /\ UNCHANGED <<providers, dflt, pcfg, sel, nfetch, cacheVars, taskVars, toolVars,
                   llamaVars, boundaryVars, serverVars, moreVars, pureVars>>

\* extract_result = await selected_provider.extract(document, ...), which
\* returns or raises
FetchExtract(outcome) ==
    /\ ft.pc = "extract"
    /\ ft' = IF outcome = Raised
             THEN [ft EXCEPT !.result = WithWarning(@, "failed"),
                             !.exraised = TRUE,
                             !.pc = after_helper(ft.req.strategy)]
             ELSE [ft EXCEPT !.result = WithContent(@, outcome, ft.prov),
                             !.pc = after_helper(ft.req.strategy)]
    /\ UNCHANGED <<nfetch, cacheVars, taskVars, regVars, toolVars, llamaVars,
                   boundaryVars, serverVars, moreVars, pureVars>>

\* await cache.set(cache_key, result, ...)
FetchStore ==
    /\ ft.pc = "store"
    /\ LET key == FetchKey(ft.req)
           c2 == IF enabled THEN set_body(cache, key, ft.result, now) ELSE cache
       IN  /\ cache' = c2
           /\ ft' = [ft EXCEPT !.stored = TRUE,
                               !.delta = @ \cup Delta(cache, c2, now),
                               !.pc = "done"]
    /\ UNCHANGED <<enabled, lock, now, nfetch, taskVars, regVars, toolVars,
                   llamaVars, boundaryVars, serverVars, moreVars, pureVars>>

\* The caller has the result.
FetchReturn ==
    /\ ft.pc = "done"
    /\ ft' = FIdle
    /\ UNCHANGED <<nfetch, cacheVars, taskVars, regVars, toolVars, llamaVars,
                   boundaryVars, serverVars, moreVars, pureVars>>

\* time passes between the steps of the fetches
FetchTick ==
    /\ now < MaxTime
    /\ now' = now + 1
    /\ UNCHANGED <<enabled, cache, lock, taskVars, regVars, toolVars, llamaVars,
                   restVars>>

FetchIdle ==
    /\ ft = FIdle
    /\ nfetch = 0

FetchNext ==
    \/ FetchTick
    \/ \E r \in FetchRequests : FetchInvoke(r)
    \/ FetchLookup
    \/ FetchHelper
    \/ \E o \in FetchContents \cup {Raised} : FetchExtract(o)
    \/ FetchStore
    \/ FetchReturn

(***************************************************************************)
(* handle_fetch when the helper cannot read the source.                    *)
(***************************************************************************)
FetchErrorKinds == {"FileNotFoundError", "PermissionError"}

\* The dict the helper's except clauses return, with the metadata
\* handle_fetch adds to it: an error field and its type, no hash, no
\* content, fromCache False
FetchErrorResult(req, kind) ==
    <<"error", req.fmt, req.strategy, FALSE, None, None, kind, FALSE>>

IsFetchError(r) == r[1] = "error"

\* _fetch_from_filesystem when opening or reading the path raises: the
\* except clauses return the error dict to handle_fetch, which goes on to
\* add the metadata and to store the result
FetchHelperFails(kind) ==
    /\ ft.pc = "helper"
    /\ ft' = [ft EXCEPT !.result = FetchErrorResult(ft.req, kind),
                        !.pc = after_helper(ft.req.strategy)]
    /\ UNCHANGED <<nfetch, cacheVars, taskVars, regVars, toolVars, llamaVars,
                   boundaryVars, serverVars, moreVars, pureVars>>

FetchErrNext ==
    \/ FetchNext
    \/ \E kind \in FetchErrorKinds : FetchHelperFails(kind)

(***************************************************************************)
(* DocsrayServer.shutdown.                                                 *)
(***************************************************************************)
\* provider.dispose(): _initialized = False, and the client the provider
\* built in initialize (parser, converter, rag_engine, ocr_engine) is set
\* to None; a provider holds a client exactly while it is initialized.
dispose_kept(name, init) == init
dispose(name, init) == [init EXCEPT ![name] = FALSE]

\* for provider_name in self.registry.list_providers(): ... dispose()
RECURSIVE dispose_all(_, _, _)
dispose_all(names, init, i) ==
    IF i > Len(names) THEN init
    ELSE dispose_all(names, dispose(names[i], init), i + 1)

\* shutdown(): no call in it suspends (the dispose methods await nothing
\* and the cache lock is free whenever a coroutine is scheduled), and the
\* event loop is closed after it, so that nothing runs once it is over.
Shutdown ==
    /\ ~down
    /\ lock_free
    /\ pinit' = dispose_all(providers, pinit, 1)
    /\ cache' = <<>>
    /\ down' = TRUE
    /\ UNCHANGED <<enabled, lock, now, providers, dflt, pcfg, sel, taskVars, toolVars,
                   llamaVars, boundaryVars, fetchVars, moreVars, pureVars>>

ServerIdle == down = FALSE

\* The tool invocations of a running server, and its shutdown.
ServerNext ==
    \/ ~down /\ ToolsNext
    \/ Shutdown

(***************************************************************************)
(* Calls of ProviderRegistry._score_provider.                              *)
(***************************************************************************)
\* The capabilities and formats of the provider that is scored, the
\* documents and the operations.
ScoreCaps ==
    [customInstructions : BOOLEAN, ocr : BOOLEAN, tables : BOOLEAN,
     streaming : BOOLEAN, averageSpeed : {0, 50, 600}]
ScoreFormats == {{"pdf"}, {"txt"}}
ScoreDocs ==
    [format : {"pdf", "PDF", None},
     size : {0, 10 * MiB, 10 * MiB + 1, 50 * MiB},
     scanned : BOOLEAN]
ScoreOps == {"peek", "map", "xray", "extract"}

ScoreCalls ==
    [caps : ScoreCaps, formats : ScoreFormats, doc : ScoreDocs, op : ScoreOps,
     done : {FALSE}, out : {0}]

\* registry._score_provider(provider, document, operation) returns
ScoreReturn ==
    /\ ~scr.done
    /\ scr' = [scr EXCEPT !.done = TRUE,
                        !.out = score(scr.caps, scr.formats, scr.doc, scr.op)]
    /\ UNCHANGED <<cacheVars, taskVars, regVars, toolVars, llamaVars,
                   boundaryVars, fetchVars, serverVars, moreVars, gk, ck, ex>>

ScoreIdle ==
    scr = [caps |-> [customInstructions |-> FALSE, ocr |-> FALSE,
                    tables |-> FALSE, streaming |-> FALSE, averageSpeed |-> 0],
          formats |-> {"pdf"}, doc |-> Document(None, 0, FALSE), op |-> "peek",
          done |-> TRUE, out |-> 0]

ScoreNext == ScoreReturn

(***************************************************************************)
(* Calls of DocumentCache.generate_key.                                    *)
(***************************************************************************)
\* The option names and values of the calls, and the options maps: up to
\* two items with different names, in either order.
KeyNames == {"a", "b", "timestamp"}
KeyValues == {Scalar(1), Scalar(2), List(<<1, 2>>), List(<<2, 1>>)}
KeyItems == KeyNames \X KeyValues
KeyOptions ==
    {<<>>} \cup {<<it>> : it \in KeyItems}
    \cup {<<pr[1], pr[2]>> :
            pr \in {q \in KeyItems \X KeyItems : q[1][1] # q[2][1]}}
KeyUrls == {<<"a", ".pdf">>, <<"b", ".pdf">>}
KeyOps == {"peek", "map"}

\* Two calls; the first is on a fixed url and operation.
KeyCalls ==
    [url1 : {<<"a", ".pdf">>}, op1 : {"peek"}, options1 : KeyOptions,
     url2 : KeyUrls, op2 : KeyOps, options2 : KeyOptions,
     done : {FALSE}, key1 : {Absent}, key2 : {Absent}]

\* the two calls of cache.generate_key return
KeyReturn ==
    /\ gk # <<>>
    /\ ~gk.done
    /\ gk' = [gk EXCEPT !.done = TRUE,
                        !.key1 = generate_key(gk.url1, gk.op1, gk.options1),
                        !.key2 = generate_key(gk.url2, gk.op2, gk.options2)]
    /\ UNCHANGED <<cacheVars, taskVars, regVars, toolVars, llamaVars,
                   boundaryVars, fetchVars, serverVars, moreVars, scr, ck, ex>>

KeyNext == KeyReturn

(***************************************************************************)
(* handle_extract from the selection of the provider on.                   *)
(***************************************************************************)
\* The targets the capability check looks at, the requested targets (a
\* valid non-empty list) and the features of the selected provider.
CheckedTargets == {"tables", "images", "forms"}
ExtractTargets == (SUBSET {"text", "tables", "images", "forms"}) \ {{}}
ExtractFeatures == [CheckedTargets -> BOOLEAN]
ExtractPayloads == {"c1", "c2"}

\* unsupported: the requested targets the capabilities do not declare, in
\* the order of the three checks
unsupported_none(targets, features) == <<>>
unsupported(targets, features) ==
    (IF "tables" \in targets /\ ~features["tables"] THEN <<"tables">> ELSE <<>>)
    \o (IF "images" \in targets /\ ~features["images"] THEN <<"images">>
        ELSE <<>>)
    \o (IF "forms" \in targets /\ ~features["forms"] THEN <<"forms">> ELSE <<>>)

\* The response map: error, content (None: no such key) and warnings
\* (Absent: no such key; else the list with the one message, which names
\* the unsupported targets).
ExtractResponse(error, content, warnings) ==
    [error |-> error, content |-> content, warnings |-> warnings]

\* The invocations whose selection has returned a provider.
ExtractCalls ==
    [targets : ExtractTargets, features : ExtractFeatures,
     pc : {"call"}, called : {FALSE}, raised : {FALSE},
     resp : {ExtractResponse(FALSE, None, Absent)}]

\* result = await selected_provider.extract(...), which returns or raises;
\* the response with its warnings; cache.set; return, or the except clause
ExtractReturn(outcome) ==
    /\ ex.pc = "call"
    /\ LET lacking == unsupported(ex.targets, ex.features) IN
       ex' = IF outcome = Raised
             THEN [ex EXCEPT !.pc = "done", !.called = TRUE, !.raised = TRUE,
                             !.resp = ExtractResponse(TRUE, None, Absent)]
             ELSE [ex EXCEPT !.pc = "done", !.called = TRUE,
                             !.resp = ExtractResponse(FALSE, outcome,
                                        IF lacking # <<>> THEN <<lacking>>
                                        ELSE Absent)]
    /\ UNCHANGED <<cacheVars, taskVars, regVars, toolVars, llamaVars,
                   boundaryVars, fetchVars, serverVars, moreVars, scr, gk, ck>>

ExtractIdle ==
    ex = [targets |-> {"text"}, features |-> [x \in CheckedTargets |-> TRUE],
          pc |-> "idle", called |-> FALSE, raised |-> FALSE,
          resp |-> ExtractResponse(FALSE, None, Absent)]

ExtractNext == \E o \in ExtractPayloads \cup {Raised} : ExtractReturn(o)

(***************************************************************************)
(* RAGEngine.create_chunks.                                                *)
(***************************************************************************)
\* config.chunk_size (characters), config.chunk_overlap (words) and
\* config.max_chunks, scaled down, and the longest text in sentences.
ChunkSize == 8
ChunkOverlap == 2
MaxChunks == 3
MaxSentences == 4

\* A sentence, as _split_into_sentences returns it, is the sequence of the
\* lengths of its words, which single spaces separate; a text is the
\* sequence of its sentences.
SentenceShapes == {<<1>>, <<2, 2>>, <<1, 1, 1>>, <<9>>, <<4, 4>>}
Texts == UNION {[1..n -> SentenceShapes] : n \in 1..MaxSentences}

\* The words of sentence i of the text: <<i, j>> is its j-th word.
SentenceWords(text, i) == [j \in 1..Len(text[i]) |-> <<i, j>>]

RECURSIVE SumLen(_, _, _)
SumLen(text, words, i) ==
    IF i > Len(words) THEN 0
    ELSE text[words[i][1]][words[i][2]] + SumLen(text, words, i + 1)

\* len() of the string made of the words joined by single spaces, after a
\* leading space if lead.
StrLen(text, lead, words) ==
    (IF lead THEN 1 ELSE 0) + SumLen(text, words, 1)
    + (IF Len(words) > 0 THEN Len(words) - 1 ELSE 0)

\* current_chunk: whether it starts with a space, its words, and how many
\* of its first words are the overlap text it was started with.
EmptyChunk == [lead |-> FALSE, words |-> <<>>, seed |-> 0]

\* _get_overlap_text(text, overlap_size): the text itself when it has no
\* more words than overlap_size, else its last overlap_size words joined
get_overlap_text(cur, overlap_size) ==
    IF Len(cur.words) <= overlap_size
    THEN [lead |-> cur.lead, words |-> cur.words]
    ELSE [lead |-> FALSE,
          words |-> SubSeq(cur.words, Len(cur.words) - overlap_size + 1,
                           Len(cur.words))]

\* `len(current_chunk) + len(sentence) > self.config.chunk_size and
\* current_chunk`
overflows_never(curlen, sentlen) == FALSE
overflows(curlen, sentlen) == curlen + sentlen > ChunkSize /\ curlen > 0

\* ChunkInfo: content (current_chunk.strip(), as its words) and, of these,
\* the number of words of the overlap text.
ChunkInfo(cur) == [content |-> cur.words, seed |-> cur.seed]

\* The loop of create_chunks over the sentences from the i-th on, and the
\* final chunk: all the chunks, before the truncation.
RECURSIVE chunk_loop(_, _, _, _)
chunk_loop(text, chunks, cur, i) ==
    IF i > Len(text)
    THEN IF cur.words # <<>> THEN Append(chunks, ChunkInfo(cur)) ELSE chunks
    ELSE LET sentence == SentenceWords(text, i) IN
         IF overflows(StrLen(text, cur.lead, cur.words),
                      StrLen(text, FALSE, sentence))
         THEN LET ov == get_overlap_text(cur, ChunkOverlap) IN
              chunk_loop(text, Append(chunks, ChunkInfo(cur)),
                         [lead |-> ov.lead, words |-> ov.words \o sentence,
                          seed |-> Len(ov.words)],
                         i + 1)
         ELSE chunk_loop(text, chunks,
                         [lead |-> IF cur.words = <<>> THEN TRUE ELSE cur.lead,
                          words |-> cur.words \o sentence,
                          seed |-> cur.seed],
                         i + 1)

\* chunks[:self.config.max_chunks]
truncate(chunks) ==
    IF Len(chunks) > MaxChunks THEN SubSeq(chunks, 1, MaxChunks) ELSE chunks

\* create_chunks(text, document_path)
create_chunks(text) == truncate(chunk_loop(text, <<>>, EmptyChunk, 1))

ChunkCalls == [text : Texts, done : {FALSE}, chunks : {<<>>}, made : {0}]

\* rag_engine.create_chunks(text, path) returns; made is the number of
\* chunks before the truncation
ChunksReturn ==
    /\ ck # <<>>
    /\ ~ck.done
    /\ ck' = [ck EXCEPT !.done = TRUE,
                        !.chunks = create_chunks(ck.text),
                        !.made = Len(chunk_loop(ck.text, <<>>, EmptyChunk, 1))]
    /\ UNCHANGED <<cacheVars, taskVars, regVars, toolVars, llamaVars,
                   boundaryVars, fetchVars, serverVars, moreVars, scr, gk, ex>>

ChunksNext == ChunksReturn

(***************************************************************************)
(* One invocation of handle_peek, handle_map, handle_xray or               *)
(* handle_extract step by step: every await of the handler and of          *)
(* select_provider is a step, and the invocation records the steps it      *)
(* takes.                                                                  *)
(***************************************************************************)
MaxPhased == 2

PhasedTools == {"peek", "map", "xray", "extract"}
PhasedRequests == {r \in Requests : r.tool \in PhasedTools}
PhasedOutcomes == {"r1", Raised}

\* `cached_result = await cache.get(cache_key); if cached_result: return
\* cached_result`: where the handler goes from the lookup
after_lookup_on(v) == "select"
after_lookup(v) == IF cached_result_truthy(v) THEN "done" ELSE "select"

\* The steps an invocation records.
Validated(ok) == <<"validate", IF ok THEN "passed" ELSE "failed">>
LookedUp(v) == <<"lookup", IF v # Absent THEN "hit" ELSE "miss">>
CanProcessBegin(name) == <<"can_process", name>>
CanProcessEnd(name) == <<"can_process returned", name>>
SelectReturned == <<"select_provider returned", None>>
OperationBegin(name) == <<"operation", name>>
OperationEnd(name) == <<"operation returned", name>>
Stored == <<"store", None>>

\* i is the position of select_provider's loop over the registry; 0 while
\* the preferred provider is examined.
PIdle ==
    [pc |-> "idle", req |-> NoReq, trace |-> <<>>, i |-> 0, cand |-> <<>>,
     prov |-> None, resp |-> Absent]

PhasedDocument(req) == Document(get_document_format(req.url), 0, FALSE)

\* The provider select_provider examines at position i.
Examined(fr) ==
    IF fr.i = 0 THEN effective_preference(fr.req.tool, fr.req.pref)
    ELSE providers[fr.i]

\* select_provider is over with out; the handler's checks on the answer
Selected(fr, out) ==
    LET a == after_selection(fr.req.tool, out) IN
    [fr EXCEPT !.trace = Append(@, SelectReturned),
               !.prov = a.prov,
               !.resp = IF a.err # None THEN ErrorResponse(a.err) ELSE Absent,
               !.pc = IF a.err # None THEN "done" ELSE "call"]

\* The loop of select_provider moves on from position i - 1 to position i:
\* to the next provider, or past the last one to the sort of the candidates.
Advance(fr, cand, i) ==
    IF i <= Len(providers)
    THEN [fr EXCEPT !.cand = cand, !.i = i, !.pc = "can_process"]
    ELSE Selected([fr EXCEPT !.cand = cand, !.i = i],
                  IF cand = <<>> THEN None
                  ELSE best_candidate(cand, PhasedDocument(fr.req), fr.req.tool))

\* handle_xxx is called: the validation of the enumerated argument
PhasedInvoke(t, req) ==
    /\ ph.n < MaxPhased
    /\ ph.of[t].pc = "idle"
    /\ \A u \in Tasks : FirstTask(u, t) => ph.of[u].pc # "idle"
    /\ ph' = [n |-> ph.n + 1,
              of |-> [ph.of EXCEPT ![t] =
                 [PIdle EXCEPT
                    !.req = req,
                    !.trace = <<Validated(valid_request(req))>>,
                    !.resp = IF valid_request(req) THEN Absent
                             ELSE ErrorResponse("invalid"),
                    !.pc = IF valid_request(req) THEN "lookup" ELSE "done"]]]
    /\ UNCHANGED <<cacheVars, taskVars, regVars, toolVars, llamaVars,
                   boundaryVars, fetchVars, serverVars, pureVars, besidePhases>>

\* cached_result = await cache.get(cache_key); if cached_result: return
PhasedLookup(t) ==
    /\ ph.of[t].pc = "lookup"
    /\ lock_free
    /\ LET key == KeyOf(ph.of[t].req)
           r == IF enabled THEN get_body(cache, key, now) ELSE <<Absent, cache>>
       IN  /\ cache' = r[2]
           /\ ph' = [ph EXCEPT !.of[t] =
                [@ EXCEPT !.trace = Append(@, LookedUp(r[1])),
                          !.resp = IF cached_result_truthy(r[1]) THEN r[1]
                                   ELSE Absent,
                          !.pc = after_lookup(r[1])]]
    /\ UNCHANGED <<enabled, lock, now, taskVars, regVars, toolVars, llamaVars,
                   boundaryVars, fetchVars, serverVars, pureVars, besidePhases>>

\* select_provider is entered: the preferred provider is examined first
\* when it is named and registered, the registry's providers otherwise
PhasedSelect(t) ==
    /\ ph.of[t].pc = "select"
    /\ LET fr == ph.of[t]
           pref == effective_preference(fr.req.tool, fr.req.pref)
       IN  ph' = [ph EXCEPT !.of[t] =
                IF pref # None /\ pref # "auto" /\ Registered(pref)
                THEN [fr EXCEPT !.i = 0, !.pc = "can_process"]
                ELSE Advance(fr, <<>>, 1)]
    /\ UNCHANGED <<cacheVars, taskVars, regVars, toolVars, llamaVars,
                   boundaryVars, fetchVars, serverVars, pureVars, besidePhases>>

\* `await provider.can_process(document)` is entered
PhasedCanProcess(t) ==
    /\ ph.of[t].pc = "can_process"
    /\ ph' = [ph EXCEPT !.of[t] =
                [@ EXCEPT !.trace = Append(@, CanProcessBegin(Examined(ph.of[t]))),
                          !.pc = "in_can_process"]]
    /\ UNCHANGED <<cacheVars, taskVars, regVars, toolVars, llamaVars,
                   boundaryVars, fetchVars, serverVars, pureVars, besidePhases>>

\* can_process returns or raises: the preferred provider is returned when
\* it can process and the loop is entered when it cannot; in the loop a
\* provider that can process becomes a candidate; an exception leaves
\* select_provider for the handler's except clause
PhasedCanProcessReturn(t) ==
    /\ ph.of[t].pc = "in_can_process"
    /\ LET fr == ph.of[t]
           name == Examined(fr)
           r == can_process(name, PhasedDocument(fr.req), pinit)
           fr2 == [fr EXCEPT !.trace = Append(@, CanProcessEnd(name))]
       IN  /\ pinit' = r.init
           /\ ph' = [ph EXCEPT !.of[t] =
                IF r.ans = "raise"
                THEN Selected(fr2, Raised)
                ELSE IF fr.i = 0
                THEN IF r.ans = "yes" THEN Selected(fr2, name)
                     ELSE Advance(fr2, <<>>, 1)
                ELSE Advance(fr2,
                             IF r.ans = "yes" THEN Append(fr.cand, name)
                             ELSE fr.cand,
                             fr.i + 1)]
    /\ UNCHANGED <<providers, dflt, pcfg, sel, cacheVars, taskVars, toolVars, llamaVars,
                   boundaryVars, fetchVars, serverVars, pureVars, besidePhases>>

\* `result = await selected_provider.operation(document, options)` is
\* entered
PhasedOperation(t) ==
    /\ ph.of[t].pc = "call"
    /\ ph' = [ph EXCEPT !.of[t] =
                [@ EXCEPT !.trace = Append(@, OperationBegin(ph.of[t].prov)),
                          !.pc = "in_call"]]
    /\ UNCHANGED <<cacheVars, taskVars, regVars, toolVars, llamaVars,
                   boundaryVars, fetchVars, serverVars, pureVars, besidePhases>>

\* the operation returns a result or raises; the response is formatted
PhasedOperationReturn(t, outcome) ==
    /\ ph.of[t].pc = "in_call"
    /\ LET fr == ph.of[t]
           r == call_result(fr.req.tool, fr.prov, outcome)
       IN  ph' = [ph EXCEPT !.of[t] =
                [fr EXCEPT !.trace = Append(@, OperationEnd(fr.prov)),
                           !.resp = r.resp,
                           !.pc = IF r.store THEN "store" ELSE "done"]]
    /\ UNCHANGED <<cacheVars, taskVars, regVars, toolVars, llamaVars,
                   boundaryVars, fetchVars, serverVars, pureVars, besidePhases>>

\* await cache.set(cache_key, response, ...); return response
PhasedStore(t) ==
    /\ ph.of[t].pc = "store"
    /\ lock_free
    /\ cache' = IF enabled
                THEN set_body(cache, KeyOf(ph.of[t].req), ph.of[t].resp, now)
                ELSE cache
    /\ ph' = [ph EXCEPT !.of[t] =
                [@ EXCEPT !.trace = Append(@, Stored), !.pc = "done"]]
    /\ UNCHANGED <<enabled, lock, now, taskVars, regVars, toolVars, llamaVars,
                   boundaryVars, fetchVars, serverVars, pureVars, besidePhases>>

\* The caller has the response.
PhasedReturn(t) ==
    /\ ph.of[t].pc = "done"
    /\ ph' = [ph EXCEPT !.of[t] = PIdle]
    /\ UNCHANGED <<cacheVars, taskVars, regVars, toolVars, llamaVars,
                   boundaryVars, fetchVars, serverVars, pureVars, besidePhases>>

PhasesIdle == ph = [n |-> 0, of |-> [t \in Tasks |-> PIdle]]

PhasesNext ==
    \/ \E t \in Tasks, r \in PhasedRequests : PhasedInvoke(t, r)
    \/ \E t \in Tasks : PhasedLookup(t)
    \/ \E t \in Tasks : PhasedSelect(t)
    \/ \E t \in Tasks : PhasedCanProcess(t)
    \/ \E t \in Tasks : PhasedCanProcessReturn(t)
    \/ \E t \in Tasks : PhasedOperation(t)
    \/ \E t \in Tasks, o \in PhasedOutcomes : PhasedOperationReturn(t, o)
    \/ \E t \in Tasks : PhasedStore(t)
    \/ \E t \in Tasks : PhasedReturn(t)

(***************************************************************************)
(* handle_search: cache lookup, the validation of the search path, the     *)
(* coarse and the fine search, cache store.                                *)
(***************************************************************************)
MaxSearches == 3

\* What the file system holds at the search path.
PathKinds == {"directory", "file", "missing"}
Queries == {"q1", "q2"}
SearchPath == "docs"

\* cache.generate_key("search", "filesystem_search", {...})
SearchKey(query) ==
    generate_key(<<"search", "">>, "filesystem_search",
                 <<(<<"query", Scalar(query)>>),
                   (<<"search_path", Scalar(SearchPath)>>)>>)

\* Responses of handle_search: <<"results", query, the formatted results>>,
\* or <<"error", kind, whether a suggestion comes with it>>.
SearchResults(query, found) == <<"results", query, found>>
SearchError(kind) == <<"error", kind, TRUE>>
HasResults(resp) == resp # Absent /\ resp[1] = "results"
HasSuggestion(resp) == resp # Absent /\ resp[1] = "error" /\ resp[3]

\* os.path.exists and os.path.isdir on the search path: the error the
\* validation returns, None when the path is a directory
validate_path(kind) ==
    CASE kind = "missing" -> "not_exists"
      [] kind = "file" -> "not_a_directory"
      [] OTHER -> None

\* What the two search phases give: no candidate file, the ranked results,
\* or an exception.
SearchOutcomes == {"no_candidates", "ranked", Raised}

\* path is what the search path held throughout the invocation.
SIdle == [pc |-> "idle", query |-> None, path |-> None, resp |-> Absent,
          looked |-> FALSE, validated |-> FALSE]

\* The search path is created, removed, or replaced by a file, between two
\* searches.
PathChange(kind) ==
    /\ sr.pc = "idle"
    /\ kind # spath
    /\ spath' = kind
    /\ UNCHANGED <<sr, nsearch>>
    /\ UNCHANGED <<cacheVars, taskVars, regVars, toolVars, llamaVars,
                   boundaryVars, fetchVars, serverVars, pureVars, besideSearch>>

\* handle_search(query, search_path, ...) is called.
SearchInvoke(query) ==
    /\ sr.pc = "idle"
    /\ nsearch < MaxSearches
    /\ nsearch' = nsearch + 1
    /\ sr' = [SIdle EXCEPT !.pc = "lookup", !.query = query, !.path = spath]
    /\ UNCHANGED spath
    /\ UNCHANGED <<cacheVars, taskVars, regVars, toolVars, llamaVars,
                   boundaryVars, fetchVars, serverVars, pureVars, besideSearch>>

\* cached_result = await cache.get(cache_key); if cached_result: return
\* cached_result; then the validation of the search path
SearchLookup ==
    /\ sr.pc = "lookup"
    /\ lock_free
    /\ LET r == IF enabled THEN get_body(cache, SearchKey(sr.query), now)
                ELSE <<Absent, cache>>
           err == validate_path(spath)
       IN  /\ cache' = r[2]
           /\ sr' = IF cached_result_truthy(r[1])
                    THEN [sr EXCEPT !.looked = TRUE, !.resp = r[1], !.pc = "done"]
                    ELSE IF err # None
                    THEN [sr EXCEPT !.looked = TRUE, !.validated = TRUE,
                                    !.resp = SearchError(err), !.pc = "done"]
                    ELSE [sr EXCEPT !.looked = TRUE, !.validated = TRUE,
                                    !.pc = "search"]
    /\ UNCHANGED <<enabled, lock, now, spath, nsearch>>
    /\ UNCHANGED <<taskVars, regVars, toolVars, llamaVars,
                   boundaryVars, fetchVars, serverVars, pureVars, besideSearch>>

\* coarse_search and fine_search; the response
SearchFiles(outcome) ==
    /\ sr.pc = "search"
    /\ sr' = CASE outcome = Raised ->
                    [sr EXCEPT !.resp = SearchError("exception"), !.pc = "done"]
               [] outcome = "no_candidates" ->
                    [sr EXCEPT !.resp = SearchResults(sr.query, "none"),
                               !.pc = "done"]
               [] OTHER ->
                    [sr EXCEPT !.resp = SearchResults(sr.query, outcome),
                               !.pc = "store"]
    /\ UNCHANGED <<spath, nsearch>>
    /\ UNCHANGED <<cacheVars, taskVars, regVars, toolVars, llamaVars,
                   boundaryVars, fetchVars, serverVars, pureVars, besideSearch>>

\* await cache.set(cache_key, response, ...); return response
SearchStore ==
    /\ sr.pc = "store"
    /\ lock_free
    /\ cache' = IF enabled
                THEN set_body(cache, SearchKey(sr.query), sr.resp, now)
                ELSE cache
    /\ sr' = [sr EXCEPT !.pc = "done"]
    /\ UNCHANGED <<enabled, lock, now, spath, nsearch>>
    /\ UNCHANGED <<taskVars, regVars, toolVars, llamaVars,
                   boundaryVars, fetchVars, serverVars, pureVars, besideSearch>>

\* The caller has the response.
SearchReturn ==
    /\ sr.pc = "done"
    /\ sr' = SIdle
    /\ UNCHANGED <<spath, nsearch>>
    /\ UNCHANGED <<cacheVars, taskVars, regVars, toolVars, llamaVars,
                   boundaryVars, fetchVars, serverVars, pureVars, besideSearch>>

SearchIdle ==
    /\ spath = "directory"
    /\ sr = SIdle
    /\ nsearch = 0

SearchNext ==
    \/ Tick
    \/ \E k \in PathKinds : PathChange(k)
    \/ \E q \in Queries : SearchInvoke(q)
    \/ SearchLookup
    \/ \E o \in SearchOutcomes : SearchFiles(o)
    \/ SearchStore
    \/ SearchReturn

(***************************************************************************)
(* The providers' life cycle: initialize, dispose, and the lazy            *)
(* initialization in can_process.                                          *)
(***************************************************************************)
\* provider.initialize(config): the _initialized flags afterwards.  The
\* client is built from the configuration; LlamaParseProvider raises
\* without an API key and IBMDoclingProvider without its library, leaving
\* the flag as it was.
initialize(name, init) ==
    IF pcfg[name] = "good" THEN [init EXCEPT ![name] = TRUE] ELSE init

\* await provider.initialize(provider.config), called explicitly
InitializeProvider(name) ==
    /\ ~sel.done
    /\ pinit' = initialize(name, pinit)
    /\ disposed' = disposed \ {name}
    /\ UNCHANGED <<providers, dflt, pcfg, sel>>
    /\ UNCHANGED <<cacheVars, taskVars, toolVars, llamaVars,
                   boundaryVars, fetchVars, serverVars, pureVars, besideDispose>>

\* await provider.dispose()
DisposeProvider(name) ==
    /\ ~sel.done
    /\ pinit' = dispose(name, pinit)
    /\ disposed' = disposed \cup {name}
    /\ UNCHANGED <<providers, dflt, pcfg, sel>>
    /\ UNCHANGED <<cacheVars, taskVars, toolVars, llamaVars,
                   boundaryVars, fetchVars, serverVars, pureVars, besideDispose>>

DisposeIdle == disposed = {}

\* The registry DocsrayServer._initialize_providers builds when every
\* provider is enabled.
FullRegistry ==
    /\ providers = <<PyMuPDF, LlamaParse, Mimic, Docling>>
    /\ dflt = PyMuPDF
    /\ pinit = [n \in ProviderNames |-> n = PyMuPDF]
    /\ pcfg \in {c \in [ProviderNames -> {"good", "bad"}] :
                    c[PyMuPDF] = "good" /\ c[Mimic] = "good"}
    /\ sel = NoSel

\* The documents select_provider is called with while providers are
\* disposed and initialized.
DisposeDocs == {Document("pdf", 0, FALSE), Document("txt", 0, FALSE)}

DisposeNext ==
    \/ \E n \in ProviderNames : InitializeProvider(n)
    \/ \E n \in ProviderNames : DisposeProvider(n)
    \/ \E d \in DisposeDocs, p \in SelPrefs : SelectProvider(d, "peek", p)
    \/ SelectReturn

(***************************************************************************)
(* ProviderRegistry: the default provider.                                 *)
(***************************************************************************)
\* before and after are the default before and after the call.
NoSetDefault ==
    [name |-> None, raised |-> FALSE, before |-> None, after |-> None]

\* set_default_provider(name): ValueError when name is not registered, and
\* the default is left as it was
SetDefaultProvider(name) ==
    /\ ~sel.done
    /\ dflt' = IF Registered(name) THEN name ELSE dflt
    /\ setd' = [name |-> name, raised |-> ~Registered(name), before |-> dflt,
                after |-> dflt']
    /\ UNCHANGED <<providers, pinit, pcfg, sel>>
    /\ UNCHANGED <<cacheVars, taskVars, toolVars, llamaVars,
                   boundaryVars, fetchVars, serverVars, pureVars, besideDefault>>

DefaultIdle == setd = NoSetDefault

DefaultNext ==
    \/ \E n \in ProviderNames : Register(n)
    \/ \E n \in ProviderNames : Unregister(n)
    \/ \E n \in ProviderNames : SetDefaultProvider(n)

PureIdle == ScoreIdle /\ gk = <<>> /\ ck = <<>> /\ ExtractIdle

MoreIdle == PhasesIdle /\ SearchIdle /\ DisposeIdle /\ DefaultIdle

RestIdle == BoundaryIdle /\ FetchIdle /\ ServerIdle /\ PureIdle /\ MoreIdle

InitCache ==
    /\ enabled \in BOOLEAN
    /\ cache = <<>>
    /\ lock = NoTask
    /\ now = 0

InitTasks ==
    /\ tpc = [t \in Tasks |-> "idle"]
    /\ targ = [t \in Tasks |-> NoArg]
    /\ tentry = [t \in Tasks |-> NoEntry]
    /\ tret = [t \in Tasks |-> Absent]
    /\ tsnap = [t \in Tasks |-> <<>>]
    /\ tchk = [t \in Tasks |-> 0]
    /\ nops = 0

CacheNext ==
    \/ Tick
    \/ \E t \in Tasks, k \in Keys : GetCall(t, k)
    \/ \E t \in Tasks, k \in Keys, v \in Values : SetCall(t, k, v)
    \/ \E t \in Tasks : ClearCall(t)
    \/ \E t \in Tasks : Acquire(t)
    \/ \E t \in Tasks : GetLookup(t)
    \/ \E t \in Tasks : GetCheck(t)
    \/ \E t \in Tasks : SetEvict(t)
    \/ \E t \in Tasks : SetInsert(t)
    \/ \E t \in Tasks : ClearBody(t)
    \/ \E t \in Tasks : Release(t)

InitC ==
    InitCache /\ InitTasks /\ RegistryIdle /\ ToolsIdle /\ LlamaIdle /\ RestIdle

\* Concurrent get, set and clear calls on one DocumentCache.
SpecCache == InitC /\ [][CacheNext]_vars

InitR ==
    /\ enabled = TRUE /\ cache = <<>> /\ lock = NoTask /\ now = 0
    /\ InitTasks
    /\ RegistryEmpty
    /\ ToolsIdle
    /\ LlamaIdle
    /\ RestIdle

\* Registration and selection on one ProviderRegistry.
SpecRegistry == InitR /\ [][RegistryNext]_vars

InitT ==
    InitCache /\ InitTasks /\ ServerRegistry /\ ToolsIdle /\ LlamaIdle /\ RestIdle

\* Concurrent invocations of the tool handlers on one server.
SpecTools == InitT /\ [][ToolsNext]_vars

InitL ==
    /\ enabled = TRUE /\ cache = <<>> /\ lock = NoTask /\ now = 0
    /\ InitTasks
    /\ LlamaRegistry
    /\ ToolsIdle
    /\ LlamaIdle
    /\ RestIdle

\* _parse_document calls on one document whose bytes may be changed.
SpecLlama == InitL /\ [][LlamaNext]_vars

InitB ==
    /\ enabled = TRUE /\ cache = <<>> /\ lock = NoTask /\ now = 0
    /\ InitTasks
    /\ RegistryEmpty
    /\ ToolsIdle
    /\ LlamaIdle
    /\ RestIdle

\* One invocation after another of the seven tool handlers, each call of
\* which may raise.
SpecBoundary == InitB /\ [][BoundaryNext]_vars

InitF ==
    /\ InitCache
    /\ InitTasks
    /\ ServerRegistry
    /\ ToolsIdle
    /\ LlamaIdle
    /\ RestIdle

\* One handle_fetch invocation after another on one server, while time
\* passes.
SpecFetch == InitF /\ [][FetchNext]_vars

\* Concurrent tool invocations on one server until it is shut down.
SpecServer == InitT /\ [][ServerNext]_vars

InitS ==
    /\ enabled = TRUE /\ cache = <<>> /\ lock = NoTask /\ now = 0
    /\ InitTasks
    /\ RegistryEmpty
    /\ ToolsIdle
    /\ LlamaIdle
    /\ BoundaryIdle /\ FetchIdle /\ ServerIdle /\ MoreIdle
    /\ scr \in ScoreCalls /\ gk = <<>> /\ ck = <<>> /\ ExtractIdle

\* One call of _score_provider on any provider, document and operation.
SpecScore == InitS /\ [][ScoreNext]_vars

InitK ==
    /\ enabled = TRUE /\ cache = <<>> /\ lock = NoTask /\ now = 0
    /\ InitTasks
    /\ RegistryEmpty
    /\ ToolsIdle
    /\ LlamaIdle
    /\ BoundaryIdle /\ FetchIdle /\ ServerIdle /\ MoreIdle
    /\ ScoreIdle /\ gk \in KeyCalls /\ ck = <<>> /\ ExtractIdle

\* Two calls of generate_key on any two logical requests.
SpecKey == InitK /\ [][KeyNext]_vars

InitE ==
    /\ enabled = TRUE /\ cache = <<>> /\ lock = NoTask /\ now = 0
    /\ InitTasks
    /\ RegistryEmpty
    /\ ToolsIdle
    /\ LlamaIdle
    /\ BoundaryIdle /\ FetchIdle /\ ServerIdle /\ MoreIdle
    /\ ScoreIdle /\ gk = <<>> /\ ck = <<>> /\ ex \in ExtractCalls

\* One handle_extract invocation, on any targets, from the point where a
\* provider with any features has been selected.
SpecExtract == InitE /\ [][ExtractNext]_vars

InitCh ==
    /\ enabled = TRUE /\ cache = <<>> /\ lock = NoTask /\ now = 0
    /\ InitTasks
    /\ RegistryEmpty
    /\ ToolsIdle
    /\ LlamaIdle
    /\ BoundaryIdle /\ FetchIdle /\ ServerIdle /\ MoreIdle
    /\ ScoreIdle /\ gk = <<>> /\ ck \in ChunkCalls /\ ExtractIdle

\* One call of create_chunks on any text.
SpecChunks == InitCh /\ [][ChunksNext]_vars

\* Concurrent invocations of the four handlers on one server, step by step.
SpecPhases == InitT /\ [][PhasesNext]_vars

InitSe ==
    /\ InitCache
    /\ InitTasks
    /\ RegistryIdle
    /\ ToolsIdle
    /\ LlamaIdle
    /\ BoundaryIdle /\ FetchIdle /\ ServerIdle /\ PureIdle /\ PhasesIdle
    /\ DisposeIdle /\ DefaultIdle
    /\ spath \in PathKinds /\ sr = SIdle /\ nsearch = 0

\* One handle_search invocation after another, while time passes and the
\* search path comes and goes.
SpecSearch == InitSe /\ [][SearchNext]_vars

InitD ==
    /\ enabled = TRUE /\ cache = <<>> /\ lock = NoTask /\ now = 0
    /\ InitTasks
    /\ FullRegistry
    /\ ToolsIdle
    /\ LlamaIdle
    /\ RestIdle

\* Provider selections on the server's registry while the providers are
\* disposed and initialized.
SpecDispose == InitD /\ [][DisposeNext]_vars

\* Any sequence of register, unregister and set_default_provider calls on
\* one ProviderRegistry.
SpecDefault == InitR /\ [][DefaultNext]_vars

SpecFetchErr == InitF /\ [][FetchErrNext]_vars

Init == InitC
Next == CacheNext
Spec == Init /\ [][Next]_vars

(***************************************************************************)
(* DocumentCache: eviction, expiry, the lock (C2, C3, C4).                 *)
(***************************************************************************)
InCriticalSection(t) ==
    tpc[t] \in {"get_lookup", "get_check", "set_evict", "set_insert",
                "clear_body", "release"}

\* A set call that has run its body and still holds the lock.
SetDone(t) == tpc[t] = "release" /\ targ[t].op = "set"
\* A get call that has run its body and still holds the lock.
GetDone(t) == tpc[t] = "release" /\ targ[t].op = "get"

\* C2: a set on a cache that held max_size entries evicts exactly one entry,
\* the one of least creation timestamp (the first in insertion order among
\* equals), whatever the access counts are; every other entry stays as it was
\* and the key that was set is cached.
C2_SetEvictsOldestCreated ==
    \A t \in Tasks :
        (SetDone(t) /\ Len(tsnap[t]) >= MaxSize) =>
            LET s == tsnap[t]
                k == targ[t].key
            IN  \E i \in 1..Len(s) :
                    /\ \A j \in 1..Len(s) : s[i].timestamp <= s[j].timestamp
                    /\ \A j \in 1..(i-1) : s[j].timestamp > s[i].timestamp
                    /\ KeysOf(cache) = (KeysOf(s) \ {s[i].key}) \cup {k}
                    /\ Len(cache) = Cardinality(KeysOf(cache))
                    /\ \A j \in 1..Len(s) :
                          (j # i /\ s[j].key # k) =>
                              \E m \in 1..Len(cache) : cache[m] = s[j]
                    /\ \E m \in 1..Len(cache) :
                          /\ cache[m].key = k
                          /\ cache[m].value = targ[t].value

\* C2 witness: the cache was full, a new key was set, and the entry evicted
\* had been read while an entry that was never read stays cached.
C2_Witness ==
    \E t \in Tasks :
        /\ SetDone(t)
        /\ Len(tsnap[t]) = MaxSize
        /\ targ[t].key \notin KeysOf(tsnap[t])
        /\ \E i \in 1..Len(tsnap[t]) :
              /\ tsnap[t][i].key \notin KeysOf(cache)
              /\ tsnap[t][i].access_count >= 1
        /\ \E m \in 1..Len(cache) :
              /\ cache[m].access_count = 0
              /\ cache[m].key # targ[t].key

\* C3: get returns the stored value exactly when the key has an entry created
\* at most ttl ago; the read counts one access and changes no timestamp, and
\* a get that finds an expired entry removes it and returns None.
C3_GetFixedTtl ==
    \A t \in Tasks :
        GetDone(t) =>
            LET s == tsnap[t]
                k == targ[t].key
                live == \E i \in 1..Len(s) :
                            /\ s[i].key = k
                            /\ tchk[t] - s[i].timestamp <= Ttl
            IN  /\ live =>
                    /\ \E i \in 1..Len(s) : s[i].key = k /\ tret[t] = s[i].value
                    /\ cache = [i \in 1..Len(s) |->
                                  IF s[i].key = k
                                  THEN [s[i] EXCEPT !.access_count = @ + 1]
                                  ELSE s[i]]
                /\ ~live =>
                    /\ tret[t] = Absent
                    /\ cache = SelectSeq(s, LAMBDA e : e.key # k)

\* C3 witness: a get found an entry that had been read before and is now
\* older than ttl, removed it and returned None.
C3_Witness ==
    \E t \in Tasks :
        /\ GetDone(t)
        /\ tret[t] = Absent
        /\ targ[t].key \notin KeysOf(cache)
        /\ \E i \in 1..Len(tsnap[t]) :
              /\ tsnap[t][i].key = targ[t].key
              /\ tsnap[t][i].access_count >= 1
              /\ tchk[t] - tsnap[t][i].timestamp > Ttl

\* C4: under any interleaving the bodies of get, set and clear exclude each
\* other, the cache never holds more than max_size entries, and a value a get
\* returns is that of an entry still cached when the get completes.
C4_LockSerializes ==
    /\ Cardinality({t \in Tasks : InCriticalSection(t)}) <= 1
    /\ \A t \in Tasks : InCriticalSection(t) => lock = t
    /\ Len(cache) <= MaxSize
    /\ Len(cache) = Cardinality(KeysOf(cache))
    /\ \A t \in Tasks :
          (GetDone(t) /\ tret[t] # Absent) =>
              \E m \in 1..Len(cache) :
                  cache[m].key = targ[t].key /\ cache[m].value = tret[t]

\* C4 witness: a set on a full cache is between its eviction and its insert
\* while the other caller waits for the lock.
C4_Witness ==
    \E t \in Tasks, u \in Tasks :
        /\ tpc[t] = "set_insert"
        /\ Len(tsnap[t]) = MaxSize
        /\ tpc[u] = "acquire"
(***************************************************************************)
(* ProviderRegistry.select_provider (C5, C6, C7).                          *)
(***************************************************************************)
\* The registered providers whose can_process(document) answers true.
AbleProviders(doc) ==
    {q \in ProviderNames :
        Registered(q) /\ can_process(q, doc, pinit).ans = "yes"}

PositionOf(name) == CHOOSE i \in 1..Len(providers) : providers[i] = name

\* C5: with a concrete provider name, select_provider returns that provider
\* exactly when it is registered and can process the document; otherwise it
\* does not fail and returns what auto-selection returns, a provider whenever
\* some registered provider can process the document.
C5_PreferenceOrFallback ==
    (sel.done /\ sel.pref \in ProviderNames) =>
        LET ok == sel.pref \in AbleProviders(sel.doc) IN
        /\ sel.out # Raised
        /\ (sel.out = sel.pref) <=> ok
        /\ ~ok => sel.out = select_provider(sel.doc, sel.op, "auto").out
        /\ AbleProviders(sel.doc) # {} => sel.out \in ProviderNames

\* C6: auto-selection returns a provider that can process the document, of
\* maximal score among those that can, the first registered among the best;
\* it returns None exactly when no registered provider can process it.
C6_AutoSelectsBest ==
    (sel.done /\ sel.pref = "auto") =>
        LET able == AbleProviders(sel.doc)
            sc(q) == score_provider(q, sel.doc, sel.op)
        IN  /\ (sel.out = None) <=> (able = {})
            /\ able # {} =>
                  /\ sel.out \in able
                  /\ \A q \in able : sc(sel.out) >= sc(q)
                  /\ \A q \in able :
                        sc(q) = sc(sel.out) => PositionOf(sel.out) <= PositionOf(q)

\* C7: when the lazy initialization of a registered provider fails,
\* select_provider counts that provider as unable to process the document,
\* does not raise, and returns a registered provider that can process it
\* when there is one.
C7_InitFailureMeansCannotProcess ==
    (sel.done /\ \E p \in ProviderNames :
                    Registered(p) /\ ~pinit[p] /\ pcfg[p] = "bad") =>
        /\ sel.out # Raised
        /\ AbleProviders(sel.doc) # {} => sel.out \in AbleProviders(sel.doc)

(***************************************************************************)
(* The tool handlers and the result cache.                                 *)
(***************************************************************************)
HandlerDone(t) == h[t].pc = "done"

\* C1: with caching enabled, an invocation that finds a live entry under its
\* key (stored by an earlier successful invocation with the same URL and
\* options, within the time to live and not evicted) returns the stored
\* response unchanged and performs no provider selection and no provider
\* operation; and an invocation that returns a successful response from a
\* provider operation has stored exactly that response under its key.
C1_CachedResponseServed ==
    \A t \in Tasks :
        (enabled /\ HandlerDone(t)) =>
            /\ h[t].live # Absent =>
                    /\ h[t].resp = h[t].live
                    /\ ~h[t].selected
                    /\ ~h[t].called
            /\ (h[t].called /\ ~IsError(h[t].resp)) =>
                    /\ h[t].put.key = KeyOf(h[t].req)
                    /\ h[t].put.value = h[t].resp
                    /\ h[t].put.access_count = 0

\* A second identical invocation is answered from the cache: the entry has
\* been accessed and no provider was selected or called.
C1_Witness ==
    \E t \in Tasks :
        /\ enabled /\ HandlerDone(t)
        /\ ncalls >= 2
        /\ h[t].live # Absent
        /\ h[t].resp = h[t].live
        /\ ~h[t].selected /\ ~h[t].called
        /\ Lookup(cache, KeyOf(h[t].req)).access_count >= 1

\* C10 as stated: an invocation that returns an error response leaves the
\* result cache exactly as it was.
C10_ErrorLeavesCacheAsItWas ==
    \A t \in Tasks :
        (HandlerDone(t) /\ IsError(h[t].resp)) =>
            /\ h[t].put = NoEntry
            /\ h[t].delta = {}

\* C10, amended: an invocation that returns an error response adds and
\* replaces no entry; the only change it can make to the result cache is
\* that its lookup removes the expired entry stored under its own key.
C10_ErrorAddsNoEntry ==
    \A t \in Tasks :
        (HandlerDone(t) /\ IsError(h[t].resp)) =>
            /\ h[t].put = NoEntry
            /\ h[t].delta \subseteq {<<"expired-removed", KeyOf(h[t].req)>>}

\* An invocation whose lookup removed the expired entry of its key ends in
\* an error.
C10_Witness ==
    \E t \in Tasks :
        /\ HandlerDone(t) /\ IsError(h[t].resp)
        /\ h[t].looked
        /\ h[t].delta = {<<"expired-removed", KeyOf(h[t].req)>>}
        /\ KeyOf(h[t].req) \notin KeysOf(cache)

(***************************************************************************)
(* The persistent extraction cache.                                        *)
(***************************************************************************)
\* C8: while the document's bytes do not change, the hosted API is invoked
\* at most once per distinct parsing instruction: no _parse_document call
\* invokes the API under an instruction for which a result has already been
\* stored for these bytes, whatever other instructions were used in between.
C8_ApiOncePerInstruction ==
    \A t \in Tasks : lp[t].pc \in {"api", "done"} => ~lp[t].again

\* C9: after store_extraction, retrieve_extraction returns absent when the
\* document's bytes are not the bytes the result in its directory was stored
\* for (or nothing is stored for them), and when it is called with a parsing
\* instruction different from the stored one; it returns the stored payload
\* when the bytes are unchanged and the supplied instruction equals the
\* stored one; and it never removes a cache directory.
C9_RetrieveMatchesStore ==
    \A t \in Tasks :
        lp[t].ret.done =>
            LET r == lp[t].ret
                s == r.before
                i == lp[t].instr
            IN  /\ ~s.exists => r.result = Absent
                /\ (s.exists /\ s.content # r.content) => r.result = Absent
                /\ (s.exists /\ i # None /\ i # s.instr) => r.result = Absent
                /\ (s.exists /\ s.content = r.content /\ i = s.instr) =>
                        r.result = s.payload
                /\ r.kept

\* A retrieval with instruction B after a store under A for the same bytes
\* returns absent and the directory is still there.
C9_Witness ==
    \E t \in Tasks :
        /\ lp[t].ret.done
        /\ lp[t].ret.before.exists
        /\ lp[t].ret.before.content = lp[t].ret.content
        /\ lp[t].instr # None
        /\ lp[t].ret.before.instr \notin {None, lp[t].instr}
        /\ lp[t].ret.result = Absent
        /\ dirs[get_cache_dir(lp[t].ret.content)].exists

(***************************************************************************)
(* The handlers as error boundaries.                                       *)
(***************************************************************************)
\* The exceptions of the invocation raised outside the processing block of
\* the fetch helpers.
RaisedOutsideProcessing ==
    SelectSeq(bnd.raised,
              LAMBDA r : Enclosing(bnd.handler, r[1]) # "processing")

FetchDone == ft.pc = "done"

\* What every finished fetch does with the cache besides the lookup: a
\* fetch not answered from the cache calls cache.set exactly when its
\* strategy is not bypass-cache, and a bypass-cache fetch changes nothing in
\* the cache and does not return fromCache = true.
WritesUnlessBypass ==
    /\ ~ft.hit => (ft.stored <=> ft.req.strategy # "bypass-cache")
    /\ ft.hit => ~ft.stored
    /\ ft.req.strategy = "bypass-cache" =>
            /\ ft.delta = {}
            /\ ~FromCache(ft.result)

\* C12 as stated: handle_fetch looks a stored result up when the strategy
\* is use-cache or refresh-cache and never when it is bypass-cache; it
\* writes its result for every strategy except bypass-cache, so a
\* bypass-cache fetch leaves the cache unchanged and never returns
\* fromCache = true.
C12_LooksUpUnlessBypass ==
    FetchDone =>
        /\ ft.looked <=> ft.req.strategy \in {"use-cache", "refresh-cache"}
        /\ WritesUnlessBypass

\* C12, amended: handle_fetch looks a stored result up only when the
\* strategy is use-cache, never when it is refresh-cache or bypass-cache; it
\* writes its result for every strategy except bypass-cache, so a
\* bypass-cache fetch leaves the cache unchanged and never returns
\* fromCache = true.
C12_LooksUpOnlyUseCache ==
    FetchDone =>
        /\ ft.looked <=> ft.req.strategy = "use-cache"
        /\ WritesUnlessBypass

\* A refresh-cache fetch that met a live entry under its own key did not
\* look it up and replaced it with its fresh result.
C12_Witness ==
    /\ FetchDone
    /\ enabled
    /\ ft.req.strategy = "refresh-cache"
    /\ ~ft.looked /\ ~ft.hit /\ ft.stored
    /\ <<"replaced", FetchKey(ft.req)>> \in ft.delta
    /\ ~FromCache(ft.result)

\* C13: for handle_fetch on an existing local file, a metadata-only result
\* has neither fileHash nor processedContent, a raw result has fileHash and
\* no processedContent, and a processed result has processedContent
\* whenever a registered provider can process the file (and its extract
\* did not raise); for results served from the cache as for fresh ones.
C13_FormatDecidesContent ==
    FetchDone =>
        /\ ft.req.fmt = "metadata-only" =>
                ~HasFileHash(ft.result) /\ ~HasProcessedContent(ft.result)
        /\ ft.req.fmt = "raw" =>
                HasFileHash(ft.result) /\ ~HasProcessedContent(ft.result)
        /\ (ft.req.fmt = "processed" /\ ft.able /\ ~ft.exraised) =>
                HasProcessedContent(ft.result)

(***************************************************************************)
(* handle_xray and custom instructions.                                    *)
(***************************************************************************)
\* C14: handle_xray hands the preference llama-parse to the registry when
\* it is called with "auto", invokes the xray operation only on a provider
\* that declares customInstructions, and when the selected provider does
\* not declare it returns an error, calls no operation and stores nothing
\* in the cache.
C14_XrayNeedsCustomInstructions ==
    \A t \in Tasks :
        h[t].req.tool = "xray" =>
            /\ (h[t].selected /\ h[t].req.pref = "auto") =>
                    h[t].asked = LlamaParse
            /\ (h[t].pc = "call" \/ h[t].called) =>
                    /\ h[t].prov \in ProviderNames
                    /\ Capabilities(h[t].prov).customInstructions
            /\ h[t].resp = ErrorResponse("no_custom_instructions") =>
                    /\ h[t].pc = "done"
                    /\ ~h[t].called
                    /\ h[t].put = NoEntry
                    /\ \A d \in h[t].delta : d[1] \notin {"added", "replaced"}

\* With only pymupdf4llm registered, an xray invocation ends with the
\* error about custom instructions, without a provider call.
C14_Witness ==
    \E t \in Tasks :
        /\ h[t].req.tool = "xray" /\ h[t].pc = "done"
        /\ providers = <<PyMuPDF>>
        /\ h[t].asked = LlamaParse
        /\ h[t].selected /\ ~h[t].called
        /\ h[t].resp = ErrorResponse("no_custom_instructions")
        /\ KeyOf(h[t].req) \notin KeysOf(cache)

(***************************************************************************)
(* handle_peek on a plain-text document.                                   *)
(***************************************************************************)
\* C15: with only pymupdf4llm registered, handle_peek on a .txt document
\* selects pymupdf4llm (and goes on to its peek operation) rather than
\* returning the no-provider-available error.
C15_PeekTextSelectsFastLocal ==
    \A t \in Tasks :
        (/\ providers = <<PyMuPDF>>
         /\ h[t].req.tool = "peek" /\ h[t].req.url = TextUrl
         /\ h[t].selected) =>
            /\ h[t].prov = PyMuPDF
            /\ h[t].resp # ErrorResponse("no_provider")

(***************************************************************************)
(* Shutdown.                                                               *)
(***************************************************************************)
\* C16: once shutdown() has completed, every registered provider is
\* disposed (not initialized, its client released) and the result cache
\* holds no entries, whatever tool invocations came before.
C16_ShutdownDisposesAndClears ==
    down =>
        /\ cache = <<>>
        /\ \A n \in ProviderNames : Registered(n) => ~pinit[n]

\* The server is shut down after an invocation that had llama-parse
\* initialized on demand, called it and stored its response.
C16_Witness ==
    /\ down
    /\ cache = <<>>
    /\ Registered(LlamaParse) /\ ~pinit[LlamaParse] /\ ~pinit[PyMuPDF]
    /\ \E t \in Tasks :
            /\ h[t].pc = "done"
            /\ h[t].prov = LlamaParse /\ h[t].called
            /\ h[t].put # NoEntry

(***************************************************************************)
(* The provider score.                                                     *)
(***************************************************************************)
\* 1 when the condition holds, 0 otherwise.
Ind(cond) == IF cond THEN 1 ELSE 0

\* C17: _score_provider returns 10 if the document's format is one of the
\* provider's formats, plus 5 for xray with customInstructions, plus for
\* extract 8 with scanned content and ocr and 2 with tables, plus 3 for map
\* with streaming, plus min(averageSpeed / 100, 5) only when the size
\* exceeds 10 MiB (in hundredths: min(averageSpeed, 500)); a non-scanned PDF
\* of 50 MiB with extract, tables and averageSpeed 50 scores 12.5.
C17_ScoreIsTheSumOfBonuses ==
    scr.done =>
        LET c == scr.caps
            d == scr.doc
            large == d.size > 10485760
            speed == IF c.averageSpeed < 500 THEN c.averageSpeed ELSE 500
        IN
        /\ scr.out =
              1000 * Ind(d.format \in {"pdf", "PDF"} /\ "pdf" \in scr.formats)
            + 500 * Ind(scr.op = "xray" /\ c.customInstructions)
            + 800 * Ind(scr.op = "extract" /\ d.scanned /\ c.ocr)
            + 200 * Ind(scr.op = "extract" /\ c.tables)
            + 300 * Ind(scr.op = "map" /\ c.streaming)
            + speed * Ind(large)
        /\ (/\ d = Document("pdf", 52428800, FALSE) /\ scr.op = "extract"
            /\ "pdf" \in scr.formats /\ c.tables /\ c.averageSpeed = 50)
                => scr.out = 1250

\* The scored call of the example: 12.5 points.
C17_Witness ==
    /\ scr.done
    /\ scr.doc = Document("pdf", 52428800, FALSE) /\ scr.op = "extract"
    /\ "pdf" \in scr.formats /\ scr.caps.tables /\ scr.caps.averageSpeed = 50
    /\ scr.out = 1250

(***************************************************************************)
(* The cache key.                                                          *)
(***************************************************************************)
\* The number of times e occurs in the list elems.
Occurrences(elems, e) == Cardinality({i \in 1..Len(elems) : elems[i] = e})

\* Two option values are equal up to the order of the elements of a list.
SameValue(v, w) ==
    /\ v[1] = w[1]
    /\ IF IsList(v)
       THEN /\ Len(v[2]) = Len(w[2])
            /\ \A i \in 1..Len(v[2]) :
                    Occurrences(v[2], v[2][i]) = Occurrences(w[2], v[2][i])
       ELSE v = w

\* Two options maps are equal up to the order of their items and of the
\* elements of their list values, the options named in ignored apart.
SameOptions(o1, o2, ignored) ==
    /\ \A i \in 1..Len(o1) : o1[i][1] \notin ignored =>
            \E j \in 1..Len(o2) :
                o2[j][1] = o1[i][1] /\ SameValue(o1[i][2], o2[j][2])
    /\ \A j \in 1..Len(o2) : o2[j][1] \notin ignored =>
            \E i \in 1..Len(o1) : o1[i][1] = o2[j][1]

\* C18 as stated: two calls with the same url and operation and with
\* options equal up to the order of the map keys and of the elements of
\* list values return the same key, and two calls that differ in url, in
\* operation or in any option value return different keys.
C18_KeyIdentifiesRequest ==
    (gk # <<>> /\ gk.done) =>
        (gk.key1 = gk.key2 <=>
            /\ gk.url1 = gk.url2 /\ gk.op1 = gk.op2
            /\ SameOptions(gk.options1, gk.options2, {}))

\* C18, amended: the options named timestamp, request_id and session_id
\* are ignored.  Two calls with the same url and operation and with options
\* that are equal, these three apart, up to the order of the map keys and
\* of the elements of list values, return the same key; two calls that
\* differ in url, in operation or in the value of any other option return
\* different keys.
C18_KeyIdentifiesRequestButVolatile ==
    (gk # <<>> /\ gk.done) =>
        (gk.key1 = gk.key2 <=>
            /\ gk.url1 = gk.url2 /\ gk.op1 = gk.op2
            /\ SameOptions(gk.options1, gk.options2,
                           {"timestamp", "request_id", "session_id"}))

\* Two calls whose options come in a different order, with a list in a
\* different order and with different timestamps, return the same key.
C18_Witness ==
    /\ gk # <<>> /\ gk.done
    /\ gk.url1 = gk.url2 /\ gk.op1 = gk.op2
    /\ gk.options1 = <<(<<"a", List(<<2, 1>>)>>), (<<"timestamp", Scalar(1)>>)>>
    /\ gk.options2 = <<(<<"timestamp", Scalar(2)>>), (<<"a", List(<<1, 2>>)>>)>>
    /\ gk.key1 = gk.key2

(***************************************************************************)
(* handle_extract and the targets the provider lacks.                      *)
(***************************************************************************)
\* The requested targets among tables, images and forms that the selected
\* provider does not declare.
Lacking == {tg \in ex.targets \cap CheckedTargets : ~ex.features[tg]}

\* C19: handle_extract does not fail because the provider lacks a requested
\* target: the provider's extract is invoked and, unless it raises, its
\* content is returned; the response has a non-empty warnings list naming
\* every lacking target when there is one, and no warnings key when every
\* requested target is supported.
C19_LackingTargetsOnlyWarn ==
    ex.pc = "done" =>
        /\ ex.called
        /\ ex.resp.error <=> ex.raised
        /\ ~ex.raised =>
            /\ ex.resp.content \in ExtractPayloads
            /\ Lacking # {} =>
                /\ ex.resp.warnings # Absent
                /\ \A tg \in Lacking :
                    \E w \in 1..Len(ex.resp.warnings) :
                        \E i \in 1..Len(ex.resp.warnings[w]) :
                            ex.resp.warnings[w][i] = tg
            /\ Lacking = {} => ex.resp.warnings = Absent

\* Images and forms are requested from a provider that declares neither:
\* the content is returned with a warning naming both.
C19_Witness ==
    /\ ex.pc = "done"
    /\ ex.targets = {"text", "images", "forms"}
    /\ ~ex.features["images"] /\ ~ex.features["forms"]
    /\ ~ex.resp.error /\ ex.resp.content = "c1"
    /\ ex.resp.warnings = <<(<<"images", "forms">>)>>

(***************************************************************************)
(* The chunks of a text.                                                   *)
(***************************************************************************)
\* Sentence i of the text stands whole, its words in order, in the chunk.
Holds(chunk, text, i) ==
    \E at \in 0..Len(chunk.content) :
        /\ at + Len(text[i]) <= Len(chunk.content)
        /\ \A j \in 1..Len(text[i]) : chunk.content[at + j] = <<i, j>>

\* The words of a chunk follow the order of the text.
InTextOrder(chunk) ==
    \A p, q \in 1..Len(chunk.content) :
        p < q =>
            \/ chunk.content[p][1] < chunk.content[q][1]
            \/ /\ chunk.content[p][1] = chunk.content[q][1]
               /\ chunk.content[p][2] < chunk.content[q][2]

\* Every sentence of the text stands in at least one chunk, and the
\* sentences come in the order of the text, within the chunks and from one
\* chunk to the next.
EverySentenceInOrder(chunks, text) ==
    /\ \A i \in 1..Len(text) : \E c \in 1..Len(chunks) : Holds(chunks[c], text, i)
    /\ \A c \in 1..Len(chunks) : InTextOrder(chunks[c])
    /\ \A c, d \in 1..Len(chunks) :
            c < d =>
                chunks[c].content[Len(chunks[c].content)][1]
                    <= chunks[d].content[Len(chunks[d].content)][1]

\* The words of a chunk after the overlap text it was started with.
Fresh(chunk) == SubSeq(chunk.content, chunk.seed + 1, Len(chunk.content))

\* Not counting its overlap text, no chunk is longer than chunk_size,
\* unless it is a single sentence that alone is longer.
FreshWithinSize(chunks, text) ==
    \A c \in 1..Len(chunks) :
        \/ StrLen(text, FALSE, Fresh(chunks[c])) <= ChunkSize
        \/ \E i \in 1..Len(text) :
                /\ Fresh(chunks[c]) = SentenceWords(text, i)
                /\ StrLen(text, FALSE, SentenceWords(text, i)) > ChunkSize

\* C20 as stated: in the chunks of a text of N sentences every sentence of
\* the text appears in at least one chunk, in order, and no chunk, its
\* overlap text apart, is longer than chunk_size unless it is a single
\* sentence that alone exceeds chunk_size.
C20_ChunksCoverEverySentence ==
    (ck # <<>> /\ ck.done) =>
        /\ EverySentenceInOrder(ck.chunks, ck.text)
        /\ FreshWithinSize(ck.chunks, ck.text)

\* C20, amended: at most max_chunks chunks are returned, the first ones.
\* When the text makes no more than max_chunks chunks, every sentence
\* appears in at least one chunk, in order; no returned chunk, its overlap
\* text apart, is longer than chunk_size unless it is a single sentence
\* that alone exceeds chunk_size.
C20_ChunksCoverUpToMaxChunks ==
    (ck # <<>> /\ ck.done) =>
        /\ Len(ck.chunks) = (IF ck.made > MaxChunks THEN MaxChunks ELSE ck.made)
        /\ ck.made <= MaxChunks => EverySentenceInOrder(ck.chunks, ck.text)
        /\ FreshWithinSize(ck.chunks, ck.text)

\* A text that makes three chunks, the later ones started with the overlap
\* text of the one before, that hold its four sentences.
C20_Witness ==
    /\ ck # <<>> /\ ck.done
    /\ Len(ck.text) = 4
    /\ ck.made = 3 /\ Len(ck.chunks) = 3
    /\ ck.chunks[2].seed = ChunkOverlap
    /\ EverySentenceInOrder(ck.chunks, ck.text)

(***************************************************************************)
(* The order of the phases within one invocation (C21).                    *)
(***************************************************************************)
\* The phase a recorded step belongs to: validate, cache lookup, provider
\* selection, provider call, cache store.
PhaseOf(step) ==
    CASE step[1] = "validate" -> 1
      [] step[1] = "lookup" -> 2
      [] step[1] \in {"can_process", "can_process returned",
                      "select_provider returned"} -> 3
      [] step[1] \in {"operation", "operation returned"} -> 4
      [] step[1] = "store" -> 5

\* Before position i of the trace, step e was recorded.
Earlier(trace, i, e) == \E j \in 1..(i - 1) : trace[j] = e

\* C21: within one invocation of handle_peek, handle_map, handle_xray or
\* handle_extract the steps are recorded in the order validate, cache
\* lookup, provider selection, provider call, cache store: a lookup only
\* after the validation passed, a can_process only after the lookup missed
\* and only after the can_process before it returned, the operation only
\* after select_provider returned, the store only after the operation
\* returned.
C21_PhasesInOrder ==
    \A t \in Tasks :
        LET trace == ph.of[t].trace IN
        \A i \in 1..Len(trace) :
            /\ \A j \in 1..(i - 1) : PhaseOf(trace[j]) <= PhaseOf(trace[i])
            /\ trace[i][1] = "lookup" => Earlier(trace, i, Validated(TRUE))
            /\ trace[i][1] = "can_process" =>
                  /\ Earlier(trace, i, LookedUp(Absent))
                  /\ \A j \in 1..(i - 1) :
                        trace[j][1] = "can_process" =>
                            \E k \in (j + 1)..(i - 1) :
                                trace[k] = CanProcessEnd(trace[j][2])
            /\ trace[i][1] = "operation" =>
                  /\ Earlier(trace, i, SelectReturned)
                  /\ trace[i - 1] = SelectReturned
            /\ trace[i][1] = "store" =>
                  trace[i - 1][1] = "operation returned"

\* An invocation went through all five phases, examining two providers
\* during its selection, while the other invocation was under way.
C21_Witness ==
    \E t, u \in Tasks :
        /\ t # u
        /\ ph.of[u].pc \notin {"idle", "done"}
        /\ ph.of[t].pc = "done"
        /\ Stored = ph.of[t].trace[Len(ph.of[t].trace)]
        /\ Cardinality({i \in 1..Len(ph.of[t].trace) :
                            ph.of[t].trace[i][1] = "can_process"}) >= 2

(***************************************************************************)
(* The persistent extraction cache and the instruction of the call (C22).  *)
(***************************************************************************)
\* C22: _parse_document returns a result from the persistent extraction
\* cache only when that result was stored for the same bytes and under
\* exactly the instruction of the current call, a call without an
\* instruction included: a result stored under an instruction is never
\* returned to a call with another or with no instruction.
C22_CachedOnlyForSameInstruction ==
    \A t \in Tasks :
        (lp[t].ret.done /\ lp[t].ret.result # Absent) =>
            /\ lp[t].ret.before.exists
            /\ lp[t].ret.before.content = lp[t].ret.content
            /\ lp[t].ret.before.instr = lp[t].instr

(***************************************************************************)
(* handle_search and a search path that is no directory (C23).             *)
(***************************************************************************)
\* C23: every handle_search call made while the search path does not exist
\* or is not a directory returns an error response with a suggestion, and
\* no results, whatever calls were made before it.
C23_NoDirectoryMeansError ==
    (sr.pc = "done" /\ sr.path # "directory") =>
        HasSuggestion(sr.resp) /\ ~HasResults(sr.resp)

(***************************************************************************)
(* A disposed provider (C24).                                              *)
(***************************************************************************)
\* C24: after dispose() a provider stays uninitialized until initialize is
\* called explicitly: a later can_process does not build the client anew
\* from the configuration still attached to the provider.
C24_DisposedStaysUninitialized ==
    \A name \in disposed : ~pinit[name]

(***************************************************************************)
(* The registry's default provider (C25).                                  *)
(***************************************************************************)
\* The default is unset exactly when no provider is registered, and names a
\* registered provider otherwise.
DefaultIsRegistered ==
    IF providers = <<>> THEN dflt = None ELSE Registered(dflt)

\* A step that registers a new provider: into an empty registry it makes the
\* provider the default, otherwise it leaves the default as it was.
RegisterKeepsDefault ==
    Len(providers') > Len(providers) =>
        dflt' = IF providers = <<>> THEN providers'[1] ELSE dflt

\* C25: after any sequence of register, unregister and set_default_provider
\* calls, failing set_default_provider calls included, the default provider
\* is unset exactly when no provider is registered and otherwise names a
\* registered provider; the first provider registered into an empty
\* registry becomes the default, and a later register never changes an
\* existing default; a set_default_provider call that raises leaves the
\* default as it was.
C25_DefaultFollowsRegistry ==
    /\ [](DefaultIsRegistered /\ (setd.raised => setd.after = setd.before))
    /\ [][RegisterKeepsDefault]_vars

\* Two providers are registered, the default is the one registered last,
\* and the last set_default_provider call raised.
C25_Witness ==
    /\ Len(providers) = 2
    /\ dflt = providers[2]
    /\ setd.raised

(***************************************************************************)
(* DocumentCache.set on a key that is cached already (C26).                *)
(***************************************************************************)
\* C26: a set on a key that is already cached replaces only that key's
\* entry: every other key that was retrievable when the call took the lock
\* is still cached with its entry after it, also when the cache held
\* max_size entries.
C26_SetOnCachedKeyKeepsTheOthers ==
    \A t \in Tasks :
        (SetDone(t) /\ targ[t].key \in KeysOf(tsnap[t])) =>
            \A i \in 1..Len(tsnap[t]) :
                (tsnap[t][i].key # targ[t].key /\ ~is_expired(tsnap[t][i], now)) =>
                    \E m \in 1..Len(cache) : cache[m] = tsnap[t][i]

(***************************************************************************)
(* A use-cache fetch after a refresh-cache fetch (C27).                    *)
(***************************************************************************)
\* The request of ft with the strategy refresh-cache in place of its own.
AsRefresh(req) == [req EXCEPT !.strategy = "refresh-cache"]

\* C27: once a refresh-cache fetch has stored its result, a use-cache fetch
\* of the same source, return format, provider and options is answered
\* with that result from the cache and does not access the source: while
\* the result the refresh stored is live in the cache, the lookup of such a
\* fetch hits.
C27_UseCacheServesRefreshed ==
    (/\ ft.pc # "idle"
     /\ ft.req.strategy = "use-cache"
     /\ ft.looked
     /\ LiveValue(cache, FetchKey(AsRefresh(ft.req)), now) # Absent) =>
        /\ ft.hit
        /\ FromCache(ft.result)

(***************************************************************************)
(* Error results and the cache (C28).                                      *)
(***************************************************************************)
\* C28: handle_fetch never stores an error result in the cache, and a fetch
\* answered from the cache never returns a stored error: no cache entry
\* holds an error result, and a fetch whose lookup hit has no error result.
C28_ErrorResultNotCached ==
    /\ \A i \in DOMAIN cache : ~IsFetchError(cache[i].value)
    /\ (ft.pc = "done" /\ ft.hit) => ~IsFetchError(ft.result)

(***************************************************************************)
(* The instruction a hosted-API request carries (C29).                     *)
(***************************************************************************)
\* C29: every hosted-API request of _parse_document carries the parsing
\* instruction of the call that issues it, and the result is stored under
\* the instruction that was sent: a call that is at the API, or is back
\* from it with a parsed result, used the instruction it was given.
C29_RequestCarriesOwnInstruction ==
    \A t \in Tasks :
        (lp[t].sent # None /\ lp[t].pc \in {"api", "done"}) =>
            lp[t].used = lp[t].instr

(***************************************************************************)
(* Two concurrent invocations with the same request (C30).                 *)
(***************************************************************************)
\* Both invocations are in flight with the same request, and each found no
\* live entry under its key when it looked up.
BothMissed(t, u) ==
    /\ t # u
    /\ h[t].pc # "idle" /\ h[u].pc # "idle"
    /\ h[t].req = h[u].req
    /\ h[t].looked /\ h[u].looked
    /\ h[t].live = Absent /\ h[u].live = Absent

\* C30: when two invocations of a handler with the same document URL and
\* options run concurrently against an enabled cache that holds no entry
\* for them, the provider operation is executed at most once: the two are
\* never both past the provider call with neither response stored yet.
C30_OperationOncePerRequest ==
    \A t, u \in Tasks :
        (enabled /\ BothMissed(t, u)) =>
            ~(/\ h[t].called /\ h[u].called
              /\ h[t].pc = "store" /\ h[u].pc = "store")

====
